---------------------------- MODULE Spec2Model ----------------------------
(***************************************************************************)
(* A model of the movie recommendation service (src/src/recommender.py,    *)
(* src/src/app.py).                                                        *)
(*                                                                         *)
(* Representation:                                                         *)
(*  - Python str  : a sequence of one-character strings, so that strip(),  *)
(*    lower(), startswith() and concatenation are computed, not assumed.   *)
(*    Genre names, which the recommender only compares, are TLA+ strings.  *)
(*  - Python float: a fixed-point integer counting 1/Unit (four decimals,  *)
(*    the precision recommend_batch reports); products and quotients are   *)
(*    rounded to the nearest unit.                                         *)
(*  - Optional[x] : <<>> for None, <<x>> for a value.                      *)
(*  - dict        : a function; the empty dict is the empty function.      *)
(*  - list        : a sequence; [i \in 1..n |-> e] \o <<>> is the list of  *)
(*    the e, written so where its elements are read many times.            *)
(*                                                                         *)
(* The specifications share the variables. Spec calls                      *)
(* analyze_user_history and recommend_batch on enumerated arguments;       *)
(* ProfileSpec, ScoreSpec, RatingSpec, LoaderSpec and KeySpec call         *)
(* analyze_user_history, score_movie, rating_weight, load_top250 and the   *)
(* two _movie_key functions on arguments of their own. AppSpec runs the    *)
(* upload, like and batch handlers of app.py, one request at a time,       *)
(* against the model's answers of gemini_client.py; SessionSpec adds the   *)
(* click, watchlist-removal, click-count and refresh handlers. SelectSpec  *)
(* calls recommend_batch on catalogs of close scores; ThreadedSpec runs an *)
(* upload thread beside a batch thread, statement by statement.            *)
(***************************************************************************)
EXTENDS Integers, Sequences, FiniteSets, TLC

VARIABLES
    candidates,             \* recommend_batch: list[Movie]
    watched_keys,           \* recommend_batch: set[str]
    exclude_keys,           \* recommend_batch: set[str]
    liked_keys_context,     \* recommend_batch: set[str]
    watched_rating_by_key,  \* recommend_batch: dict[str, Optional[float]]
    mode,                   \* recommend_batch: str
    batch_size,             \* recommend_batch: int
    preferred_actors,       \* recommend_batch: list[str]
    preferred_directors,    \* recommend_batch: list[str]
    op,                     \* which entry point has returned last ("none" before any)
    ret,                    \* what it returned
    locals,                 \* its local variables when it returned (before a call of
                            \* score_movie or _movie_key: the arguments it is given)
    _last_uploaded_watched_movies_lines,   \* app.py global: list[str]
    _last_uploaded_watched_movies,         \* app.py global: list[dict[str, str]]
    _last_uploaded_watched_rating_by_key,  \* app.py global: dict[str, float | None]
    current_recommendations,               \* app.py global: list[dict]
    watchlist_movies,                      \* app.py global: list[dict]
    total_movie_click_count,               \* app.py global: int
    tmdb_poster_cache,                     \* app.py global: dict[(str, str), str | None]
    _TOP250_MOVIES,                        \* app.py global: None until first loaded
    gemini_imported,        \* app.py: whether the import of gemini_client succeeded
    TMDB_API_KEY,           \* app.py: whether the environment gives a TMDb key
    database,               \* the entries of movie_database_top250.json
    oracle_calls            \* the queries the request being answered sent to the Gemini model

\* the arguments, result and locals of a call
callVars == <<candidates, watched_keys, exclude_keys, liked_keys_context,
              watched_rating_by_key, mode, batch_size, preferred_actors,
              preferred_directors>>

\* the globals of app.py and the server's environment
appVars == <<_last_uploaded_watched_movies_lines, _last_uploaded_watched_movies,
             _last_uploaded_watched_rating_by_key, current_recommendations,
             watchlist_movies, total_movie_click_count, tmdb_poster_cache,
             _TOP250_MOVIES, gemini_imported, TMDB_API_KEY, database, oracle_calls>>

vars == <<callVars, op, ret, locals, appVars>>

-----------------------------------------------------------------------------
(* Numbers *)

Unit == 10000

Min(a, b) == IF a <= b THEN a ELSE b
Max(a, b) == IF a >= b THEN a ELSE b

\* n / d rounded to the nearest integer (d > 0)
RoundDiv(n, d) == (2 * n + d) \div (2 * d)

\* a * b and a / b on fixed-point numbers
MulFx(a, b) == RoundDiv(a * b, Unit)
DivFx(a, b) == RoundDiv(a * Unit, b)

None == <<>>
Some(v) == <<v>>

RECURSIVE SeqSum(_)
SeqSum(s) == IF s = <<>> THEN 0 ELSE Head(s) + SeqSum(Tail(s))

\* s[:n]
Take(s, n) == SubSeq(s, 1, Min(n, Len(s)))

Range(s) == {s[i] : i \in DOMAIN s}

\* the orders in which the elements of a set can be listed (list(a_set))
Orderings(S) ==
    {f \in [1..Cardinality(S) -> S] : \A i, j \in 1..Cardinality(S) : f[i] = f[j] => i = j}

-----------------------------------------------------------------------------
(* Strings *)

IsSpace(c) == c \in {" ", "\t"}

RECURSIVE LStrip(_)
LStrip(s) == IF s # <<>> /\ IsSpace(Head(s)) THEN LStrip(Tail(s)) ELSE s

RECURSIVE RStrip(_)
RStrip(s) ==
    IF s # <<>> /\ IsSpace(s[Len(s)]) THEN RStrip(SubSeq(s, 1, Len(s) - 1)) ELSE s

\* str.strip()
Strip(s) == RStrip(LStrip(s))

UpperLetters == <<"A", "B", "C", "D", "E", "F", "G", "H", "I", "J", "K", "L", "M",
                  "N", "O", "P", "Q", "R", "S", "T", "U", "V", "W", "X", "Y", "Z">>
LowerLetters == <<"a", "b", "c", "d", "e", "f", "g", "h", "i", "j", "k", "l", "m",
                  "n", "o", "p", "q", "r", "s", "t", "u", "v", "w", "x", "y", "z">>

LowerChar(c) ==
    IF \E i \in DOMAIN UpperLetters : UpperLetters[i] = c
    THEN LowerLetters[CHOOSE i \in DOMAIN UpperLetters : UpperLetters[i] = c]
    ELSE c

\* str.lower()
Lower(s) == [i \in DOMAIN s |-> LowerChar(s[i])]

\* str.startswith(prefix)
StartsWith(s, prefix) ==
    Len(s) >= Len(prefix) /\ SubSeq(s, 1, Len(prefix)) = prefix

Http == <<"h", "t", "t", "p">>

\* recommender._norm_title
NormTitle(title) == Lower(Strip(title))

\* recommender._movie_key
MovieKey(title, year) == NormTitle(title) \o <<":", ":">> \o Strip(year)

\* Movie.key
KeyOf(m) == MovieKey(m.title, m.year)

-----------------------------------------------------------------------------
(* dict helpers *)

EmptyDict == [k \in {} |-> 0]

\* d.get(k, default)
DictGet(d, k, default) == IF k \in DOMAIN d THEN d[k] ELSE default

\* d[k] = v
DictSet(d, k, v) == [x \in DOMAIN d \cup {k} |-> IF x = k THEN v ELSE d[x]]

\* for k in names: d[k] = d.get(k, 0.0) + v
RECURSIVE AddAll(_, _, _)
AddAll(d, names, v) ==
    IF names = <<>> THEN d
    ELSE AddAll(DictSet(d, Head(names), DictGet(d, Head(names), 0) + v), Tail(names), v)

SetMax(S) == CHOOSE x \in S : \A y \in S : y <= x

\* sum(f(k) for k in S)
RECURSIVE SumOver(_, _)
SumOver(f, S) ==
    IF S = {} THEN 0
    ELSE LET k == CHOOSE x \in S : TRUE IN f[k] + SumOver(f, S \ {k})

-----------------------------------------------------------------------------
(* recommender.py: index_by_key, rating_weight, _normalize_profile,        *)
(* _entropy_norm                                                           *)

\* {m.key: m for m in movies if m.title}: a later entry replaces an earlier
\* one with the same key
IndexByKey(movies) ==
    LET titled == {i \in DOMAIN movies : movies[i].title # <<>>}
        key == [i \in DOMAIN movies |-> KeyOf(movies[i])] \o <<>>
    IN  [k \in {key[i] : i \in titled} |-> movies[SetMax({i \in titled : key[i] = k})]]

Clamp(v, lo, hi) == Max(lo, Min(v, hi))

\* RatingWeight without the two clamps
RatingWeightUnclamped(rating) ==
    IF rating = None THEN Unit
    ELSE LET r == rating[1] IN
         IF r <= 5 * Unit
         THEN 7500 + RoundDiv(r * 12, 100)
         ELSE 7500 + RoundDiv(r * 6, 100)

RatingWeight(rating) ==
    IF rating = None THEN Unit
    ELSE LET r == rating[1] IN
         IF r <= 5 * Unit
         THEN 7500 + RoundDiv(Clamp(r, 0, 5 * Unit) * 6000, 5 * Unit)
         ELSE 7500 + RoundDiv(Clamp(r, 0, 10 * Unit) * 6000, 10 * Unit)

\* NormalizeProfile dividing by the smallest value, with no clamp
NormalizeProfileByMin(raw) ==
    IF DOMAIN raw = {} THEN EmptyDict
    ELSE LET min_v == CHOOSE v \in {raw[k] : k \in DOMAIN raw} :
                          \A k \in DOMAIN raw : v <= raw[k] IN
         IF min_v <= 0 THEN [k \in DOMAIN raw |-> 0]
         ELSE [k \in DOMAIN raw |-> DivFx(raw[k], min_v)]

NormalizeProfile(raw) ==
    IF DOMAIN raw = {} THEN EmptyDict
    ELSE LET max_v == SetMax({raw[k] : k \in DOMAIN raw}) IN
         IF max_v <= 0 THEN [k \in DOMAIN raw |-> 0]
         ELSE [k \in DOMAIN raw |-> Max(0, Min(DivFx(raw[k], max_v), Unit))]

Ln2 == 6931

\* math.log on fixed-point numbers (x > 0): halve or double x into
\* [0.75, 1.5], then ln x = 2 atanh((x - 1) / (x + 1)) by its series
RECURSIVE LnFx(_)
LnFx(x) ==
    IF x > Unit + Unit \div 2 THEN Ln2 + LnFx(RoundDiv(x, 2))
    ELSE IF x < Unit - Unit \div 4 THEN LnFx(2 * x) - Ln2
    ELSE LET z  == DivFx(x - Unit, x + Unit)
             z2 == MulFx(z, z)
             z3 == MulFx(z2, z)
             z5 == MulFx(z3, z2)
         IN  2 * (z + RoundDiv(z3, 3) + RoundDiv(z5, 5))

\* EntropyNorm without the division by the largest possible entropy
EntropyNormUnscaled(dist) ==
    LET total == SumOver([k \in DOMAIN dist |-> Max(0, dist[k])], DOMAIN dist) IN
    IF total <= 0 THEN 0
    ELSE LET pos   == {k \in DOMAIN dist : dist[k] > 0}
             probs == [k \in pos |-> DivFx(Max(0, dist[k]), total)]
             h     == 0 - RoundDiv(SumOver([k \in pos |-> IF probs[k] = 0 THEN 0 ELSE probs[k] * LnFx(probs[k])], pos), Unit)
         IN  IF pos = {} THEN 0 ELSE Max(0, Min(h, Unit))

EntropyNorm(dist) ==
    LET total == SumOver([k \in DOMAIN dist |-> Max(0, dist[k])], DOMAIN dist) IN
    IF total <= 0 THEN 0
    ELSE LET pos   == {k \in DOMAIN dist : dist[k] > 0}
             probs == [k \in pos |-> DivFx(Max(0, dist[k]), total)]
             h     == 0 - RoundDiv(SumOver([k \in pos |-> IF probs[k] = 0 THEN 0 ELSE probs[k] * LnFx(probs[k])], pos), Unit)
             h_max == IF Cardinality(pos) > 1 THEN LnFx(Cardinality(pos) * Unit) ELSE Unit
         IN  IF pos = {} THEN 0 ELSE Max(0, Min(DivFx(h, h_max), Unit))

-----------------------------------------------------------------------------
(* recommender.py: analyze_user_history *)

\* AddMovie counting every actor and every director of the movie
AddMovieAllNames(raw, m, wg, wa, wd) ==
    [genre    |-> AddAll(raw.genre, m.genres, wg),
     actor    |-> AddAll(raw.actor, m.actors, wa),
     director |-> AddAll(raw.director, m.directors, wd)]

\* one pass of "for k in keys" over the three raw dicts; wg, wa, wd are the
\* amounts added per genre, actor (first 6) and director (first 2)
AddMovie(raw, m, wg, wa, wd) ==
    [genre    |-> AddAll(raw.genre, m.genres, wg),
     actor    |-> AddAll(raw.actor, Take(m.actors, 6), wa),
     director |-> AddAll(raw.director, Take(m.directors, 2), wd)]

RECURSIVE AddWatched(_, _, _, _)
AddWatched(raw, keys, ratings, movie_index) ==
    IF keys = <<>> THEN raw
    ELSE LET k == Head(keys) IN
         IF k \notin DOMAIN movie_index
         THEN AddWatched(raw, Tail(keys), ratings, movie_index)
         ELSE LET w == RatingWeight(DictGet(ratings, k, None)) IN
              AddWatched(AddMovie(raw, movie_index[k], w, MulFx(w, 5000), MulFx(w, 9000)),
                         Tail(keys), ratings, movie_index)

RECURSIVE AddLiked(_, _, _)
AddLiked(raw, keys, movie_index) ==
    IF keys = <<>> THEN raw
    ELSE LET k == Head(keys) IN
         IF k \notin DOMAIN movie_index
         THEN AddLiked(raw, Tail(keys), movie_index)
         ELSE AddLiked(AddMovie(raw, movie_index[k], 8000, 5000, 9000),
                       Tail(keys), movie_index)

\* SetPreferred raising only the names the history already gave a weight
RECURSIVE SetPreferredKnownNames(_, _)
SetPreferredKnownNames(profile, preferred) ==
    IF preferred = <<>> THEN profile
    ELSE LET aa == Strip(Head(preferred)) IN
         SetPreferredKnownNames(IF aa \in DOMAIN profile THEN DictSet(profile, aa, Unit) ELSE profile,
                                Tail(preferred))

\* for a in preferred: aa = str(a).strip(); if aa: profile[aa] = 1.0
RECURSIVE SetPreferred(_, _)
SetPreferred(profile, preferred) ==
    IF preferred = <<>> THEN profile
    ELSE LET aa == Strip(Head(preferred)) IN
         SetPreferred(IF aa # <<>> THEN DictSet(profile, aa, Unit) ELSE profile,
                      Tail(preferred))

\* genre_profile[g] * (0.75 + 0.25 * concentration), clamped to [0, 1]
AdjustGenres(genre_profile, genre_raw) ==
    LET e == EntropyNorm(genre_raw)
        concentration == Unit - e
        factor == 7500 + MulFx(2500, concentration)
    IN  [g \in DOMAIN genre_profile |-> Max(0, Min(MulFx(genre_profile[g], factor), Unit))]

RawProfiles(watched_list, ratings, movie_index, liked_list) ==
    AddLiked(AddWatched([genre |-> EmptyDict, actor |-> EmptyDict, director |-> EmptyDict],
                        watched_list, ratings, movie_index),
             liked_list, movie_index)

AnalyzeUserHistory(watched_list, ratings, movie_index, liked_list, pref_actors, pref_directors) ==
    LET raw == RawProfiles(watched_list, ratings, movie_index, liked_list) IN
    [genre    |-> AdjustGenres(NormalizeProfile(raw.genre), raw.genre),
     actor    |-> SetPreferred(NormalizeProfile(raw.actor), pref_actors),
     director |-> SetPreferred(NormalizeProfile(raw.director), pref_directors)]

-----------------------------------------------------------------------------
(* recommender.py: score_movie *)

ModeSuper == <<"s", "u", "p", "e", "r">>
ModeRegular == <<"r", "e", "g", "u", "l", "a", "r">>

\* (sum(xs) / len(xs)) if xs else 0.0, xs = [profile.get(n, 0.0) for n in names]
MeanWeight(profile, names) ==
    IF names = <<>> THEN 0
    ELSE RoundDiv(SeqSum([i \in DOMAIN names |-> DictGet(profile, names[i], 0)]), Len(names))

HasPoster(m) == m.poster_url # <<>> /\ StartsWith(m.poster_url, Http)

\* ScoreMovie with the actor and director terms computed in every mode
ScoreMovieAllTerms(m, genre_profile, actor_profile, director_profile, md) ==
    LET base == RoundDiv(78 * MeanWeight(genre_profile, m.genres)
                         + 12 * MeanWeight(actor_profile, Take(m.actors, 8))
                         + 10 * MeanWeight(director_profile, Take(m.directors, 2)), 100)
        rated == IF m.imdb_rating # None
                 THEN base + RoundDiv((Clamp(m.imdb_rating[1], 0, 10 * Unit) - 8 * Unit) * 6, 100)
                 ELSE base
    IN  IF HasPoster(m) THEN rated + 1200 ELSE rated - 1800

\* ScoreMovie with the result clamped to [0, 1]
ScoreMovieClamped(m, genre_profile, actor_profile, director_profile, md) ==
    Clamp(ScoreMovieAllTerms(m, genre_profile, [a \in DOMAIN actor_profile |-> 0],
                             [d \in DOMAIN director_profile |-> 0], md)
          + (IF md = ModeSuper
             THEN RoundDiv(12 * MeanWeight(actor_profile, Take(m.actors, 8))
                           + 10 * MeanWeight(director_profile, Take(m.directors, 2)), 100)
             ELSE 0),
          0, Unit)

ScoreMovie(m, genre_profile, actor_profile, director_profile, md) ==
    LET genre_score == MeanWeight(genre_profile, m.genres)
        actor_score == IF md = ModeSuper THEN MeanWeight(actor_profile, Take(m.actors, 8)) ELSE 0
        director_score ==
            IF md = ModeSuper THEN MeanWeight(director_profile, Take(m.directors, 2)) ELSE 0
        base == RoundDiv(78 * genre_score + 12 * actor_score + 10 * director_score, 100)
        rated == IF m.imdb_rating # None
                 THEN base + RoundDiv((Clamp(m.imdb_rating[1], 0, 10 * Unit) - 8 * Unit) * 6, 100)
                 ELSE base
    IN  IF HasPoster(m) THEN rated + 1200 ELSE rated - 1800

-----------------------------------------------------------------------------
(* recommender.py: recommend_batch *)

MaxBatch == 60

\* "super" if str(mode).strip().lower() == "super" else "regular"
CoerceMode(md) == IF Lower(Strip(md)) = ModeSuper THEN ModeSuper ELSE ModeRegular

\* ClampBatch without the upper limit
ClampBatchFromBelow(n) == Max(1, n)

\* max(1, min(int(batch_size), 60))
ClampBatch(n) == Max(1, Min(n, MaxBatch))

\* Pool without the liked-context test
PoolIgnoringLiked(cands, watched, excluded, liked) ==
    SelectSeq(cands, LAMBDA m : KeyOf(m) \notin watched /\ KeyOf(m) \notin excluded)

\* the movies of candidates whose key is in none of the three sets, in order
Pool(cands, watched, excluded, liked) ==
    SelectSeq(cands, LAMBDA m : /\ KeyOf(m) \notin watched
                                /\ KeyOf(m) \notin excluded
                                /\ KeyOf(m) \notin liked)

Thresholds(md) ==
    IF md = ModeRegular THEN <<3000, 5000, 6000, 6000, 6000>>
    ELSE <<2500, 3000, 3500, 3500, 3500>>

\* entries of scored lists are <<movie, score>>
AtLeast(working, t) == SelectSeq(working, LAMBDA ms : ms[2] >= t)

\* Relax adopting every filter, the empty one too
RECURSIVE RelaxToEmpty(_, _, _)
RelaxToEmpty(working, thresholds, bs) ==
    IF thresholds = <<>> THEN working
    ELSE RelaxToEmpty(AtLeast(working, Head(thresholds)), Tail(thresholds), bs)

\* Relax adopting a filter only when it holds a full batch
RECURSIVE RelaxKeepingFullBatch(_, _, _)
RelaxKeepingFullBatch(working, thresholds, bs) ==
    IF thresholds = <<>> THEN working
    ELSE LET filtered == AtLeast(working, Head(thresholds)) IN
         RelaxKeepingFullBatch(IF Len(filtered) >= bs THEN filtered ELSE working,
                               Tail(thresholds), bs)

\* for t in thresholds: tighten, but never to an empty list
RECURSIVE Relax(_, _, _)
Relax(working, thresholds, bs) ==
    IF thresholds = <<>> THEN working
    ELSE LET filtered == AtLeast(working, Head(thresholds)) IN
         IF Len(filtered) >= bs THEN Relax(filtered, Tail(thresholds), bs)
         ELSE Relax(IF filtered # <<>> THEN filtered ELSE working, Tail(thresholds), bs)

\* SortDesc as an ascending sort read backwards: entries of equal score swap
SortDescReversingTies(s) ==
    LET rank == [i \in DOMAIN s |->
                    Cardinality({j \in DOMAIN s : s[j][2] > s[i][2]})
                    + Cardinality({j \in DOMAIN s : j > i /\ s[j][2] = s[i][2]}) + 1] \o <<>>
    IN  [p \in DOMAIN s |-> s[CHOOSE i \in DOMAIN s : rank[i] = p]] \o <<>>

\* list.sort(key=lambda ms: ms[1], reverse=True): stable, so an entry stands
\* after the entries of higher score and after the earlier ones of equal score
SortDesc(s) ==
    LET rank == [i \in DOMAIN s |->
                    Cardinality({j \in DOMAIN s : s[j][2] > s[i][2]})
                    + Cardinality({j \in DOMAIN s : j < i /\ s[j][2] = s[i][2]}) + 1] \o <<>>
    IN  [p \in DOMAIN s |-> s[CHOOSE i \in DOMAIN s : rank[i] = p]] \o <<>>

\* DiversityPenalty counting the movie's first genre only
DiversityPenaltyFirstGenre(m, genre_counts) ==
    IF m.genres = <<>> THEN 0 ELSE 300 * DictGet(genre_counts, m.genres[1], 0)

\* diversity_penalty: 0.03 * genre_counts.get(g, 0) summed over m.genres
DiversityPenalty(m, genre_counts) ==
    SeqSum([i \in DOMAIN m.genres |-> 300 * DictGet(genre_counts, m.genres[i], 0)])

\* Greedy picking, at each step, the remaining movie of highest adjusted score
RECURSIVE GreedyBestAdjusted(_, _, _, _)
GreedyBestAdjusted(working, selected, genre_counts, bs) ==
    IF working = <<>> \/ Len(selected) >= bs THEN selected
    ELSE LET adj == [i \in DOMAIN working |->
                        working[i][2] - DiversityPenalty(working[i][1], genre_counts)]
             best == CHOOSE i \in DOMAIN working :
                         \A j \in DOMAIN working : adj[i] > adj[j] \/ (adj[i] = adj[j] /\ i <= j)
         IN  GreedyBestAdjusted(SubSeq(working, 1, best - 1) \o SubSeq(working, best + 1, Len(working)),
                                Append(selected, <<working[best][1], adj[best]>>),
                                AddAll(genre_counts, working[best][1].genres, 1), bs)

\* the super-mode loop over working, before the re-sort
RECURSIVE Greedy(_, _, _, _)
Greedy(working, selected, genre_counts, bs) ==
    IF working = <<>> \/ Len(selected) >= bs THEN selected
    ELSE LET m == Head(working)[1]
             s2 == Head(working)[2] - DiversityPenalty(m, genre_counts)
         IN  Greedy(Tail(working), Append(selected, <<m, s2>>),
                    AddAll(genre_counts, m.genres, 1), bs)

\* Select returning the super-mode picks in the order they were picked
SelectWithoutResort(working, md, bs) ==
    IF md = ModeSuper THEN Greedy(working, <<>>, EmptyDict, bs)
    ELSE Take(working, bs)

Select(working, md, bs) ==
    IF md = ModeSuper THEN SortDesc(Greedy(working, <<>>, EmptyDict, bs))
    ELSE Take(working, bs)

LogoSvg == <<"l", "o", "g", "o", ".", "s", "v", "g">>

\* ", ".join(names), as the list of its pieces
RECURSIVE Join(_)
Join(names) ==
    IF names = <<>> THEN <<>>
    ELSE IF Len(names) = 1 THEN names
    ELSE <<Head(names), ", ">> \o Join(Tail(names))

\* the why_it_fits text of one result, as the list of its pieces ("" is <<>>)
WhyItFits(m, genre_profile) ==
    IF DOMAIN genre_profile # {} /\ m.genres # <<>>
    THEN LET weighted == [i \in DOMAIN m.genres |->
                             <<m.genres[i], DictGet(genre_profile, m.genres[i], 0)>>]
             top_genres == Take(SortDesc(weighted), 2)
             named == SelectSeq([i \in DOMAIN top_genres |-> top_genres[i][1]],
                                LAMBDA g : g # "")
         IN  IF named # <<>>
             THEN <<"Strong match for your ">> \o Join(named) \o <<" taste.">>
             ELSE <<>>
    ELSE <<>>

\* round(float(s), 4): scores already count 1/Unit = 0.0001
Round4(s) == s

Result(m, s, genre_profile, md) ==
    [title       |-> m.title,
     year        |-> m.year,
     director    |-> IF m.directors # <<>> THEN m.directors[1] ELSE <<>>,
     image       |-> IF m.poster_url # <<>> THEN m.poster_url ELSE LogoSvg,
     why_it_fits |-> WhyItFits(m, genre_profile),
     score       |-> Round4(s),
     mode        |-> md]

\* the locals of recommend_batch; watched_list and liked_list are the orders in
\* which list(watched_keys) and list(liked_keys_context) enumerate the sets
RecommendLocals(cands, watched_list, excluded, liked_list, ratings, md0, bs0, pref_actors, pref_directors) ==
    LET md == CoerceMode(md0)
        bs == ClampBatch(bs0)
        profiles == AnalyzeUserHistory(watched_list, ratings, IndexByKey(cands),
                                       liked_list, pref_actors, pref_directors)
        pool == Pool(cands, Range(watched_list), excluded, Range(liked_list))
        scored == [i \in DOMAIN pool |->
                      <<pool[i], ScoreMovie(pool[i], profiles.genre, profiles.actor,
                                            profiles.director, md)>>]
        working == SortDesc(Relax(scored, Thresholds(md), bs))
        selected == Take(Select(working, md, bs), bs)
    IN  [mode |-> md, batch_size |-> bs, profiles |-> profiles, pool |-> pool,
         scored |-> scored, working |-> working, selected |-> selected,
         results |-> [i \in DOMAIN selected |->
                         Result(selected[i][1], selected[i][2], profiles.genre, md)]]

RecommendBatch(cands, watched_list, excluded, liked_list, ratings, md0, bs0, pref_actors, pref_directors) ==
    RecommendLocals(cands, watched_list, excluded, liked_list, ratings, md0, bs0,
                    pref_actors, pref_directors).results

-----------------------------------------------------------------------------
(* The inputs the entry points are called with *)

MaxCatalog == 4
MaxWatched == 2

Tom == <<"t">>
Ann == <<"n">>
Dee == <<"d">>
Kay == <<"k">>
PosterHttp == <<"h", "t", "t", "p", ":", "x">>

Movie(title, year, genres, actors, directors, poster_url, imdb_rating) ==
    [title |-> title, year |-> year, genres |-> genres, actors |-> actors,
     directors |-> directors, poster_url |-> poster_url, imdb_rating |-> imdb_rating]

\* " a" (1) has the key of "A" (1); "B" has no poster; "D" has no rating
BaseCatalog ==
    << Movie(<<"A">>, <<"1">>, <<"Drama">>, <<Tom>>, <<Dee>>, PosterHttp, Some(90000)),
       Movie(<<"C">>, <<"1">>, <<"Drama", "Comedy">>, <<Tom, Ann>>, <<Kay>>, PosterHttp, Some(85000)),
       Movie(<<"D">>, <<>>, <<"Drama">>, <<Ann>>, <<Dee>>, PosterHttp, None),
       Movie(<<"B">>, <<"2">>, <<"Comedy">>, <<>>, <<>>, <<>>, Some(50000)),
       Movie(<<" ", "a">>, <<"1">>, <<"Action">>, <<Ann>>, <<Kay>>, PosterHttp, Some(80000)),
       Movie(<<"E">>, <<"2">>, <<"Action", "Drama">>, <<Tom>>, <<Dee, Kay>>, PosterHttp, Some(80000)) >>

\* the elements of a set of integers, ascending
RECURSIVE Ascending(_)
Ascending(S) ==
    IF S = {} THEN <<>>
    ELSE LET lo == CHOOSE x \in S : \A y \in S : x <= y IN <<lo>> \o Ascending(S \ {lo})

SubsetsUpTo(S, n) == {T \in SUBSET S : Cardinality(T) <= n}

\* the sub-lists of BaseCatalog of at most MaxCatalog movies
SmallCatalogs ==
    {[i \in DOMAIN Ascending(S) |-> BaseCatalog[Ascending(S)[i]]] :
        S \in SubsetsUpTo(DOMAIN BaseCatalog, MaxCatalog)}

\* a catalog larger than the largest batch: BigN movies "m00", "m01", ...
BigN == MaxBatch + 2
Digits == <<"0", "1", "2", "3", "4", "5", "6", "7", "8", "9">>
BigMovie(i) ==
    Movie(<<"M", Digits[(i \div 10) + 1], Digits[(i % 10) + 1]>>, <<"3">>, <<"Drama">>,
          <<Tom>>, <<Dee>>, PosterHttp, Some(80000 + 1000 * (i % 3)))
BigCatalog == [i \in 1..BigN |-> BigMovie(i)]

\* watch-history records: a key and the rating the user gave (star scale,
\* ten scale, none); each is in some catalogs and not in others
HistoryUniverse ==
    { [key |-> MovieKey(<<"a">>, <<"1">>), rating |-> Some(50000)],
      [key |-> MovieKey(<<"C">>, <<"1">>), rating |-> Some(100000)],
      [key |-> MovieKey(<<"D">>, <<>>), rating |-> None] }

Histories ==
    {H \in SubsetsUpTo(HistoryUniverse, MaxWatched) :
        \A g, h \in H : g.key = h.key => g = h}

KeysOf(H) == {h.key : h \in H}
RatingsOf(H) == [k \in KeysOf(H) |-> (CHOOSE h \in H : h.key = k).rating]

ExcludeSets == {{}, {MovieKey(<<"E">>, <<"2">>)}}
LikedSets == {{}, {MovieKey(<<"D">>, <<>>)}, {MovieKey(<<"B">>, <<"2">>)}}

\* mode strings that are neither "regular" nor "super" as written
OddModes == {<<" ", "S", "U", "P", "E", "R">>, <<"s", "u", "p">>, <<>>}
BatchSizes == {0, 2, MaxBatch + 1}
PreferredInputs == {<<>>, <<<<" ", "t">>, <<" ">>>>}

\* the globals of app.py as the module's top level leaves them
Constructed ==
    /\ _last_uploaded_watched_movies_lines = <<>>
    /\ _last_uploaded_watched_movies = <<>>
    /\ _last_uploaded_watched_rating_by_key = EmptyDict
    /\ current_recommendations = <<>>
    /\ watchlist_movies = <<>>
    /\ total_movie_click_count = 0
    /\ tmdb_poster_cache = EmptyDict
    /\ _TOP250_MOVIES = None
    /\ oracle_calls = <<>>

Init ==
    /\ \/ /\ candidates \in SmallCatalogs
          /\ \E H \in Histories :
                /\ watched_keys = KeysOf(H)
                /\ watched_rating_by_key = RatingsOf(H)
          /\ exclude_keys \in ExcludeSets
          /\ liked_keys_context \in LikedSets
          /\ mode \in {ModeRegular, ModeSuper}
          /\ batch_size \in BatchSizes
          /\ \E p \in PreferredInputs :
                /\ preferred_actors = p
                /\ preferred_directors = [i \in DOMAIN p |-> IF p[i] = <<" ", "t">> THEN Kay ELSE p[i]]
       \/ /\ candidates = BaseCatalog
          /\ watched_keys = {MovieKey(<<"a">>, <<"1">>)}
          /\ watched_rating_by_key = [k \in watched_keys |-> None]
          /\ exclude_keys = {}
          /\ liked_keys_context = {}
          /\ mode \in OddModes
          /\ batch_size = 2
          /\ preferred_actors \in PreferredInputs
          /\ preferred_directors = preferred_actors
       \/ /\ candidates = BigCatalog
          /\ watched_keys \in {{}, {KeyOf(BigMovie(2))}, {KeyOf(BigMovie(2)), KeyOf(BigMovie(3))}}
          /\ watched_rating_by_key = [k \in watched_keys |-> None]
          /\ exclude_keys = {}
          /\ liked_keys_context = {}
          /\ mode \in {ModeRegular, ModeSuper}
          /\ batch_size \in {MaxBatch, MaxBatch + 1}
          /\ preferred_actors = <<>>
          /\ preferred_directors = <<>>
    /\ op = "none"
    /\ ret = <<>>
    /\ locals = <<>>
    /\ Constructed
    /\ gemini_imported = FALSE
    /\ TMDB_API_KEY = FALSE
    /\ database = <<>>

\* a call of analyze_user_history on index_by_key(candidates); locals keeps
\* genre_raw, actor_raw and director_raw as they are at the return
CallAnalyzeUserHistory ==
    /\ op = "none"
    /\ \E watched_list \in Orderings(watched_keys), liked_list \in Orderings(liked_keys_context) :
          \E movie_index \in {IndexByKey(candidates)} :
             /\ locals' = RawProfiles(watched_list, watched_rating_by_key, movie_index, liked_list)
             /\ ret' = AnalyzeUserHistory(watched_list, watched_rating_by_key, movie_index,
                                          liked_list, preferred_actors, preferred_directors)
    /\ op' = "analyze_user_history"
    /\ UNCHANGED <<candidates, watched_keys, exclude_keys, liked_keys_context,
                   watched_rating_by_key, mode, batch_size, preferred_actors,
                   preferred_directors>>
    /\ UNCHANGED appVars

\* CallRecommendBatch filtering the caller's list in place (candidates[:] = pool)
CallRecommendBatchFilteringInPlace ==
    /\ op = "none"
    /\ \E watched_list \in Orderings(watched_keys), liked_list \in Orderings(liked_keys_context) :
          /\ locals' = RecommendLocals(candidates, watched_list, exclude_keys, liked_list,
                                       watched_rating_by_key, mode, batch_size,
                                       preferred_actors, preferred_directors)
          /\ ret' = locals'.results
    /\ op' = "recommend_batch"
    /\ candidates' = Pool(candidates, watched_keys, exclude_keys, liked_keys_context)
    /\ UNCHANGED <<watched_keys, exclude_keys, liked_keys_context,
                   watched_rating_by_key, mode, batch_size, preferred_actors,
                   preferred_directors>>
    /\ UNCHANGED appVars

\* a call of recommend_batch
CallRecommendBatch ==
    /\ op = "none"
    /\ \E watched_list \in Orderings(watched_keys), liked_list \in Orderings(liked_keys_context) :
          /\ locals' = RecommendLocals(candidates, watched_list, exclude_keys, liked_list,
                                       watched_rating_by_key, mode, batch_size,
                                       preferred_actors, preferred_directors)
          /\ ret' = locals'.results
    /\ op' = "recommend_batch"
    /\ UNCHANGED <<candidates, watched_keys, exclude_keys, liked_keys_context,
                   watched_rating_by_key, mode, batch_size, preferred_actors,
                   preferred_directors>>
    /\ UNCHANGED appVars

Next == CallAnalyzeUserHistory \/ CallRecommendBatch

Spec == Init /\ [][Next]_vars

-----------------------------------------------------------------------------
(* analyze_user_history on histories with several ratings, keys the catalog *)
(* lacks, and a movie with more than 6 actors and more than 2 directors     *)

MaxProfileCatalog == 3
MaxHistory == 2

\* seven actors, three directors, three genres
WideMovie ==
    Movie(<<"F">>, <<"1">>, <<"Drama", "Comedy", "Action">>,
          <<Tom, Ann, <<"p">>, <<"q">>, <<"r">>, <<"s">>, <<"u">>>>,
          <<Dee, Kay, <<"v">>>>, PosterHttp, Some(70000))

\* "A", "C", "B", "F" and " a" (which has the key of "A")
ProfileMovies ==
    <<BaseCatalog[1], BaseCatalog[2], BaseCatalog[4], WideMovie, BaseCatalog[5]>>

ProfileCatalogs ==
    {[i \in DOMAIN Ascending(S) |-> ProfileMovies[Ascending(S)[i]]] :
        S \in SubsetsUpTo(DOMAIN ProfileMovies, MaxProfileCatalog)}

AbsentKey == MovieKey(<<"z">>, <<"9">>)

\* star-scale and ten-scale ratings, no rating, and a key no catalog holds
ProfileHistoryUniverse ==
    { [key |-> MovieKey(<<"a">>, <<"1">>), rating |-> Some(50000)],
      [key |-> MovieKey(<<"c">>, <<"1">>), rating |-> Some(100000)],
      [key |-> MovieKey(<<"b">>, <<"2">>), rating |-> Some(100000)],
      [key |-> MovieKey(<<"f">>, <<"1">>), rating |-> Some(30000)],
      [key |-> AbsentKey, rating |-> None] }

ProfileHistories == SubsetsUpTo(ProfileHistoryUniverse, MaxHistory)

ProfileLikedSets ==
    {{}, {MovieKey(<<"f">>, <<"1">>)}, {MovieKey(<<"b">>, <<"2">>)}, {AbsentKey}}

\* <<preferred_actors, preferred_directors>>: none; padded names of the
\* catalog; a name no movie has
ProfilePreferred ==
    { <<<<>>, <<>>>>,
      <<<<<<" ", "n">>, <<" ">>>>, <<<<"k", " ">>>>>>,
      <<<<<<"z">>>>, <<<<"z">>>>>> }

ProfileInit ==
    /\ candidates \in ProfileCatalogs
    /\ \E H \in ProfileHistories :
          /\ watched_keys = KeysOf(H)
          /\ watched_rating_by_key = RatingsOf(H)
    /\ exclude_keys = {}
    /\ liked_keys_context \in ProfileLikedSets
    /\ mode = ModeSuper
    /\ batch_size = 1
    /\ \E p \in ProfilePreferred :
          /\ preferred_actors = p[1]
          /\ preferred_directors = p[2]
    /\ op = "none"
    /\ ret = <<>>
    /\ locals = <<>>
    /\ Constructed
    /\ gemini_imported = FALSE
    /\ TMDB_API_KEY = FALSE
    /\ database = <<>>

ProfileSpec == ProfileInit /\ [][CallAnalyzeUserHistory]_vars

-----------------------------------------------------------------------------
(* recommend_batch on catalogs whose raw scores lie closer together than   *)
(* the diversity penalty, with batches smaller than the working set        *)

MaxSelect == 3

\* six movies with posters, rated 9.0 down to 8.3, sharing genres
DiversityMovies ==
    << Movie(<<"P">>, <<"1">>, <<"Drama">>, <<Tom>>, <<Dee>>, PosterHttp, Some(90000)),
       Movie(<<"Q">>, <<"1">>, <<"Drama", "Comedy">>, <<Tom>>, <<Dee>>, PosterHttp, Some(88000)),
       Movie(<<"R">>, <<"1">>, <<"Drama">>, <<Ann>>, <<Kay>>, PosterHttp, Some(87000)),
       Movie(<<"S">>, <<"1">>, <<"Action">>, <<Ann>>, <<Kay>>, PosterHttp, Some(85000)),
       Movie(<<"T">>, <<"1">>, <<"Comedy">>, <<Ann>>, <<Kay>>, PosterHttp, Some(84000)),
       Movie(<<"U">>, <<"1">>, <<"Drama", "Action">>, <<Tom>>, <<Dee>>, PosterHttp, Some(83000)) >>

DiversityCatalogs ==
    {[i \in DOMAIN Ascending(S) |-> DiversityMovies[Ascending(S)[i]]] :
        S \in SUBSET DOMAIN DiversityMovies}

SelectInit ==
    /\ candidates \in DiversityCatalogs
    /\ watched_keys \in {{}, {MovieKey(<<"T">>, <<"1">>)}}
    /\ watched_rating_by_key = [k \in watched_keys |-> Some(50000)]
    /\ exclude_keys = {}
    /\ liked_keys_context = {}
    /\ mode \in {ModeRegular, ModeSuper}
    /\ batch_size \in 1..MaxSelect \cup {MaxBatch}
    /\ preferred_actors = <<>>
    /\ preferred_directors = <<>>
    /\ op = "none"
    /\ ret = <<>>
    /\ locals = <<>>
    /\ Constructed
    /\ gemini_imported = FALSE
    /\ TMDB_API_KEY = FALSE
    /\ database = <<>>

SelectSpec == SelectInit /\ [][CallRecommendBatch]_vars

-----------------------------------------------------------------------------
(* rating_weight called on the rating the history holds for a key *)

MaxRating == 12

\* no rating; -2.0, -1.9, ..., MaxRating in tenths; -100.0 and 100.0
Ratings ==
    {None} \cup {Some(i * (Unit \div 10)) : i \in (0 - 20)..(10 * MaxRating)}
           \cup {Some(0 - 100 * Unit), Some(100 * Unit)}

RatingInit ==
    /\ watched_keys = {MovieKey(<<"a">>, <<"1">>)}
    /\ \E rating \in Ratings : watched_rating_by_key = [k \in watched_keys |-> rating]
    /\ candidates = <<>>
    /\ exclude_keys = {}
    /\ liked_keys_context = {}
    /\ mode = ModeRegular
    /\ batch_size = 1
    /\ preferred_actors = <<>>
    /\ preferred_directors = <<>>
    /\ op = "none"
    /\ ret = <<>>
    /\ locals = <<>>
    /\ Constructed
    /\ gemini_imported = FALSE
    /\ TMDB_API_KEY = FALSE
    /\ database = <<>>

\* w = rating_weight(watched_rating_by_key.get(k))
CallRatingWeight ==
    /\ op = "none"
    /\ \E k \in watched_keys :
          /\ locals' = DictGet(watched_rating_by_key, k, None)
          /\ ret' = RatingWeight(locals')
    /\ op' = "rating_weight"
    /\ UNCHANGED <<callVars, appVars>>

RatingSpec == RatingInit /\ [][CallRatingWeight]_vars

-----------------------------------------------------------------------------
(* score_movie called on one movie with the profiles of a history *)

\* nine actors and three directors: the ninth actor and the third director
\* are the ones the history knows
CrowdedMovie ==
    Movie(<<"G">>, <<"1">>, <<"Drama", "War">>,
          <<Ann, Ann, Ann, Ann, Ann, Ann, Ann, Ann, Tom>>, <<Kay, Kay, Dee>>,
          PosterHttp, Some(80000))

\* "A", "C", "D" (no rating), "B" (no poster); ratings outside 0..10; a
\* poster that is no http address; a movie without genres
ScoreMovies ==
    { BaseCatalog[1], BaseCatalog[2], BaseCatalog[3], BaseCatalog[4], WideMovie, CrowdedMovie,
      Movie(<<"H">>, <<"1">>, <<"Drama">>, <<Tom>>, <<Dee>>, PosterHttp, Some(120000)),
      Movie(<<"I">>, <<"1">>, <<"Drama">>, <<Tom>>, <<Dee>>, PosterHttp, Some(0 - 10000)),
      Movie(<<"J">>, <<"1">>, <<"Comedy">>, <<Ann>>, <<Kay>>, <<"f", "t", "p">>, Some(85000)),
      Movie(<<"K">>, <<"1">>, <<>>, <<Tom>>, <<>>, PosterHttp, None) }

\* the profiles analyze_user_history returns on the catalog "A", "C", "B",
\* "F" for the histories and preferred names of ProfileSpec
ScoreProfiles ==
    { AnalyzeUserHistory(CHOOSE f \in Orderings(KeysOf(H)) : TRUE, RatingsOf(H),
                         IndexByKey(SubSeq(ProfileMovies, 1, 4)), <<>>, p[1], p[2]) :
        H \in ProfileHistories, p \in ProfilePreferred }

\* score_movie tests mode == "super" itself
ScoreModes == {ModeRegular, ModeSuper, <<" ", "S", "U", "P", "E", "R">>}

ScoreInit ==
    /\ \E m \in ScoreMovies, profiles \in ScoreProfiles :
          locals = [movie |-> m, genre_profile |-> profiles.genre,
                    actor_profile |-> profiles.actor, director_profile |-> profiles.director]
    /\ mode \in ScoreModes
    /\ candidates = <<>>
    /\ watched_keys = {}
    /\ watched_rating_by_key = EmptyDict
    /\ exclude_keys = {}
    /\ liked_keys_context = {}
    /\ batch_size = 1
    /\ preferred_actors = <<>>
    /\ preferred_directors = <<>>
    /\ op = "none"
    /\ ret = <<>>
    /\ Constructed
    /\ gemini_imported = FALSE
    /\ TMDB_API_KEY = FALSE
    /\ database = <<>>

\* a call of score_movie on the movie and the profiles held in locals
CallScoreMovie ==
    /\ op = "none"
    /\ ret' = ScoreMovie(locals.movie, locals.genre_profile, locals.actor_profile,
                         locals.director_profile, mode)
    /\ op' = "score_movie"
    /\ UNCHANGED <<callVars, locals, appVars>>

ScoreSpec == ScoreInit /\ [][CallScoreMovie]_vars

-----------------------------------------------------------------------------
(* recommender.py: load_top250 *)

\* a character outside ASCII, standing for any such character
NonAsciiChar == "e-acute"

\* recommender._is_englishish_title
IsEnglishishTitle(title) ==
    LET t == Strip(title) IN t # <<>> /\ \A i \in DOMAIN t : t[i] # NonAsciiChar

\* tuple(str(a).strip() for a in names if str(a).strip())
StripAll(names) ==
    SelectSeq([i \in DOMAIN names |-> Strip(names[i])], LAMBDA n : n # <<>>)

TopN == 100

\* LoadTop250 cutting the list to TopN entries before it sorts
LoadTop250TruncatingFirst(raw) ==
    LET kept == SelectSeq(raw, LAMBDA m : /\ IsEnglishishTitle(m.title)
                                          /\ StartsWith(Strip(m.poster_url), Http))
        out == [i \in DOMAIN kept |->
                   Movie(Strip(kept[i].title), Strip(kept[i].year),
                         SelectSeq(kept[i].genres, LAMBDA g : g # ""),
                         StripAll(kept[i].actors), StripAll(kept[i].directors),
                         Strip(kept[i].poster_url), kept[i].imdb_rating)]
        sorted == SortDesc([i \in DOMAIN Take(out, TopN) |->
                               <<out[i], IF out[i].imdb_rating = None THEN 0
                                         ELSE out[i].imdb_rating[1]>>])
    IN  [i \in DOMAIN sorted |-> sorted[i][1]]

\* recommender.load_top250 on the entries of the database file; a genre is one
\* value of the model, so the strip of a genre only drops the empty one
LoadTop250(raw) ==
    LET kept == SelectSeq(raw, LAMBDA m : /\ IsEnglishishTitle(m.title)
                                          /\ StartsWith(Strip(m.poster_url), Http))
        out == [i \in DOMAIN kept |->
                   Movie(Strip(kept[i].title), Strip(kept[i].year),
                         SelectSeq(kept[i].genres, LAMBDA g : g # ""),
                         StripAll(kept[i].actors), StripAll(kept[i].directors),
                         Strip(kept[i].poster_url), kept[i].imdb_rating)]
        sorted == SortDesc([i \in DOMAIN out |->
                               <<out[i], IF out[i].imdb_rating = None THEN 0
                                         ELSE out[i].imdb_rating[1]>>])
    IN  Take([i \in DOMAIN sorted |-> sorted[i][1]], TopN)

\* Contents of the database file: short lists of entries the two filters
\* keep or drop, and long lists that the cut at TopN shortens

MaxExtra == 3

HttpUrl == <<"h", "t", "t", "p", ":", "/", "/", "x">>
HttpsUrl == <<"h", "t", "t", "p", "s", ":", "/", "/", "x">>

\* padded title and poster; a title outside ASCII; a blank title; no
\* poster; an ftp poster; a poster that starts with http and is no
\* address; a rating of 0.0 next to a missing one and a negative one
LoaderEntries ==
    << Movie(<<"A">>, <<"1">>, <<"Drama">>, <<Tom>>, <<Dee>>, HttpUrl, Some(85000)),
       Movie(<<" ", "C", " ">>, <<" ", "1">>, <<"Drama", "">>, <<Tom, <<" ">>>>, <<Kay>>,
             <<" ">> \o HttpsUrl \o <<" ">>, Some(90000)),
       Movie(<<"N", NonAsciiChar>>, <<"1">>, <<"Drama">>, <<Tom>>, <<Dee>>, HttpUrl, Some(95000)),
       Movie(<<" ">>, <<"1">>, <<"Drama">>, <<Tom>>, <<Dee>>, HttpUrl, Some(95000)),
       Movie(<<"D">>, <<"1">>, <<"Drama">>, <<Tom>>, <<Dee>>, <<>>, Some(95000)),
       Movie(<<"E">>, <<"1">>, <<"Drama">>, <<Tom>>, <<Dee>>, <<"f", "t", "p", ":", "/", "/", "x">>, Some(95000)),
       Movie(<<"F">>, <<"1">>, <<"Drama">>, <<Tom>>, <<Dee>>, <<"h", "t", "t", "p", "x">>, None),
       Movie(<<"G">>, <<"1">>, <<"Drama">>, <<Tom>>, <<Dee>>, HttpUrl, Some(0)),
       Movie(<<"H">>, <<"1">>, <<"Drama">>, <<Tom>>, <<Dee>>, HttpUrl, Some(0 - 10000)) >>

ShortDatabases ==
    {[i \in DOMAIN Ascending(S) |-> LoaderEntries[Ascending(S)[i]]] :
        S \in SUBSET DOMAIN LoaderEntries}

\* the i-th entry of a long list: ratings 7.0 to 9.5 in no order, every
\* eleventh entry unrated, every seventeenth without a poster
LongEntry(i) ==
    Movie(<<"M", Digits[(i \div 100) + 1], Digits[((i \div 10) % 10) + 1], Digits[(i % 10) + 1]>>,
          <<"3">>, <<"Drama">>, <<Tom>>, <<Dee>>,
          IF i % 17 = 0 THEN <<>> ELSE HttpUrl,
          IF i % 11 = 0 THEN None ELSE Some(70000 + 5000 * ((i * 7) % 6)))

\* lists of TopN - 1 to TopN + 6 + MaxExtra entries: the filters leave
\* fewer than TopN, exactly TopN or more than TopN of them
LongDatabases == {[i \in 1..n |-> LongEntry(i)] : n \in (TopN - 1)..(TopN + 6 + MaxExtra)}

LoaderInit ==
    /\ database \in ShortDatabases \cup LongDatabases
    /\ candidates = <<>>
    /\ watched_keys = {}
    /\ watched_rating_by_key = EmptyDict
    /\ exclude_keys = {}
    /\ liked_keys_context = {}
    /\ mode = ModeRegular
    /\ batch_size = 1
    /\ preferred_actors = <<>>
    /\ preferred_directors = <<>>
    /\ op = "none"
    /\ ret = <<>>
    /\ locals = <<>>
    /\ Constructed
    /\ gemini_imported = FALSE
    /\ TMDB_API_KEY = FALSE

\* a call of load_top250 on the database file
CallLoadTop250 ==
    /\ op = "none"
    /\ ret' = LoadTop250(database)
    /\ op' = "load_top250"
    /\ UNCHANGED <<callVars, locals, appVars>>

LoaderSpec == LoaderInit /\ [][CallLoadTop250]_vars

-----------------------------------------------------------------------------
(* gemini_client.py: what a call makes of the model's answers. An answer is  *)
(* [kind |-> "error"] (generate_content raises), [kind |-> "text"] (the     *)
(* reply is not JSON), [kind |-> "list", items |-> ...] or                   *)
(* [kind |-> "object", movies |-> ..., profiles |-> ...]                     *)

Failed(answer) == answer.kind \in {"error", "text"}

\* the sanitising loop of ask_regular_recommendations over a list of objects
SanitizeRegular(items, safe_count) ==
    LET stripped == [i \in DOMAIN items |->
                        [title |-> Strip(items[i].title), year |-> Strip(items[i].year),
                         director |-> Strip(items[i].director),
                         why_it_fits |-> Strip(items[i].why_it_fits)]]
    IN  Take(SelectSeq(stripped, LAMBDA p : p.title # <<>>), safe_count)

\* gemini_client.ask_regular_recommendations: one query, no retry
AskRegularRecommendations(answer, count) ==
    LET safe_count == Max(1, Min(count, 120)) IN
    IF answer.kind # "list" THEN [raised |-> TRUE, value |-> <<>>, queries |-> 1]
    ELSE [raised |-> FALSE, value |-> SanitizeRegular(answer.items, safe_count), queries |-> 1]

\* the sanitising loop of ask_super_recommendations
SanitizeSuper(items, safe_count) ==
    LET stripped == [i \in DOMAIN items |->
                        [title |-> Strip(items[i].title), year |-> Strip(items[i].year),
                         director |-> Strip(items[i].director)]]
    IN  Take(SelectSeq(stripped, LAMBDA p : p.title # <<>>), safe_count)

\* AskSuperRecommendations giving up after the first query
AskSuperRecommendationsWithoutRetry(answers, count) ==
    LET safe_count == Max(1, Min(count, 50))
        data == answers[1]
    IN  IF Failed(data) \/ data.kind # "object"
        THEN [raised |-> TRUE, value |-> <<>>, queries |-> 1]
        ELSE [raised |-> FALSE,
              value |-> [profiles |-> data.profiles,
                         movies |-> SanitizeSuper(data.movies, safe_count)],
              queries |-> 1]

\* gemini_client.ask_super_recommendations: a second query when the first
\* raises or does not parse; answers[1] and answers[2] are the model's replies
\* (answers[2] is not looked at when no second query is made)
AskSuperRecommendations(answers, count) ==
    LET safe_count == Max(1, Min(count, 50))
        queries == IF Failed(answers[1]) THEN 2 ELSE 1
        data == answers[queries]
    IN  IF Failed(data) \/ data.kind # "object"
        THEN [raised |-> TRUE, value |-> <<>>, queries |-> queries]
        ELSE [raised |-> FALSE,
              value |-> [profiles |-> data.profiles,
                         movies |-> SanitizeSuper(data.movies, safe_count)],
              queries |-> queries]

-----------------------------------------------------------------------------
(* app.py: helpers *)

\* app.normalize_movie_title
NormalizeMovieTitle(movie_title) == Lower(Strip(movie_title))

\* app._movie_key
AppMovieKey(title, year) == NormalizeMovieTitle(title) \o <<":", ":">> \o Strip(year)

\* str.endswith(suffix)
EndsWith(s, suffix) ==
    Len(s) >= Len(suffix) /\ SubSeq(s, Len(s) - Len(suffix) + 1, Len(s)) = suffix

IsDigit(c) == \E i \in DOMAIN Digits : Digits[i] = c
DigitValue(c) == (CHOOSE i \in DOMAIN Digits : Digits[i] = c) - 1

RECURSIVE ParseDigits(_)
ParseDigits(s) ==
    IF s = <<>> THEN 0
    ELSE 10 * ParseDigits(SubSeq(s, 1, Len(s) - 1)) + DigitValue(s[Len(s)])

\* app._safe_float_or_none, on unsigned whole numerals and on text that
\* float() rejects
SafeFloatOrNone(value) ==
    LET s == Strip(value) IN
    IF s = <<>> THEN None
    ELSE IF \A i \in DOMAIN s : IsDigit(s[i]) THEN Some(ParseDigits(s) * Unit)
    ELSE None

\* app.get_first_non_empty_value
RECURSIVE GetFirstNonEmptyValue(_, _)
GetFirstNonEmptyValue(row, candidate_keys) ==
    IF candidate_keys = <<>> THEN <<>>
    ELSE IF Head(candidate_keys) \in DOMAIN row /\ Strip(row[Head(candidate_keys)]) # <<>>
    THEN Strip(row[Head(candidate_keys)])
    ELSE GetFirstNonEmptyValue(row, Tail(candidate_keys))

\* app.parse_uploaded_csv_rows
ParseUploadedCsvRows(rows) ==
    [i \in DOMAIN rows |->
        [date |-> GetFirstNonEmptyValue(rows[i], <<"Date", "date">>),
         name |-> GetFirstNonEmptyValue(rows[i], <<"Name", "name", "Movie", "movie", "Title", "title">>),
         year |-> GetFirstNonEmptyValue(rows[i], <<"Year", "year">>),
         rating |-> GetFirstNonEmptyValue(rows[i], <<"Rating", "rating", "Stars", "stars", "Score", "score">>),
         letterboxd_uri |-> GetFirstNonEmptyValue(rows[i], <<"Letterboxd URI", "letterboxd_uri">>)]]

\* the movies of a parsed upload that have a name
Named(parsed_movies) == SelectSeq(parsed_movies, LAMBDA m : Strip(m.name) # <<>>)

\* app.build_watched_lines_for_gemini
BuildWatchedLinesForGemini(parsed_movies) ==
    LET named == Named(parsed_movies) IN
    [i \in DOMAIN named |->
        IF Strip(named[i].year) # <<>>
        THEN Strip(named[i].name) \o <<" ", "(">> \o Strip(named[i].year) \o <<")">>
        ELSE Strip(named[i].name)]

\* the loop of upload_csv that fills _last_uploaded_watched_rating_by_key
RECURSIVE RatingByKey(_, _)
RatingByKey(parsed_movies, d) ==
    IF parsed_movies = <<>> THEN d
    ELSE LET m == Head(parsed_movies)
             name_value == Strip(m.name)
             year_value == Strip(m.year)
             rating_value == SafeFloatOrNone(Strip(m.rating))
         IN  IF name_value = <<>> THEN RatingByKey(Tail(parsed_movies), d)
             ELSE RatingByKey(Tail(parsed_movies),
                              DictSet(d, NormalizeMovieTitle(name_value) \o <<":", ":">> \o year_value,
                                      rating_value))

\* AddMovieToWatchlist comparing the titles as written, letter case included
AddMovieToWatchlistExactTitle(watchlist, movie) ==
    LET movie_title == Strip(movie.title) IN
    IF movie_title = <<>> THEN watchlist
    ELSE IF \E i \in DOMAIN watchlist : Strip(watchlist[i].title) = movie_title
    THEN watchlist
    ELSE Append(watchlist, [title |-> movie_title, director |-> Strip(movie.director),
                            year |-> Strip(movie.year), image |-> Strip(movie.image)])

\* app.add_movie_to_watchlist
AddMovieToWatchlist(watchlist, movie) ==
    LET movie_title == Strip(movie.title) IN
    IF movie_title = <<>> THEN watchlist
    ELSE IF \E i \in DOMAIN watchlist :
               NormalizeMovieTitle(watchlist[i].title) = NormalizeMovieTitle(movie_title)
    THEN watchlist
    ELSE Append(watchlist, [title |-> movie_title, director |-> Strip(movie.director),
                            year |-> Strip(movie.year), image |-> Strip(movie.image)])

\* app.get_tmdb_poster_url: the poster it returns and the cache it leaves;
\* posters is the set of titles TMDb finds a poster for
GetTmdbPosterUrl(movie_title, movie_year, cache, has_key, posters) ==
    LET cleaned_title == Strip(movie_title)
        cleaned_year == Strip(movie_year)
        cache_key == <<Lower(cleaned_title), cleaned_year>>
        found == IF cleaned_title \in posters THEN Some(PosterHttp) ELSE None
    IN  IF ~has_key \/ cleaned_title = <<>> THEN [url |-> None, cache |-> cache]
        ELSE IF cache_key \in DOMAIN cache THEN [url |-> cache[cache_key], cache |-> cache]
        ELSE [url |-> found, cache |-> DictSet(cache, cache_key, found)]

DefaultPoster ==
    <<"d", "e", "f", "a", "u", "l", "t", "_", "p", "o", "s", "t", "e", "r", ".", "s", "v", "g">>

\* poster_url if it starts with "http", else "default_poster.svg"
ImageUrl(url) ==
    IF url # None /\ StartsWith(Strip(url[1]), Http) THEN url[1] ELSE DefaultPoster

\* k.split("::", 1)[0]
RECURSIVE BeforeSep(_)
BeforeSep(k) ==
    IF k = <<>> THEN <<>>
    ELSE IF Len(k) >= 2 /\ k[1] = ":" /\ k[2] = ":" THEN <<>>
    ELSE <<Head(k)>> \o BeforeSep(Tail(k))

\* k.partition("::")[2]: what follows the first "::", "" without one
RECURSIVE AfterSep(_)
AfterSep(k) ==
    IF Len(k) < 2 THEN <<>>
    ELSE IF k[1] = ":" /\ k[2] = ":" THEN SubSeq(k, 3, Len(k))
    ELSE AfterSep(Tail(k))

\* RemoveFromWatchlist popping the last entry with the title, whatever its year
RemoveFromWatchlistIgnoringYear(watchlist, normalized_title, year_part) ==
    LET hits == {i \in DOMAIN watchlist :
                    NormalizeMovieTitle(watchlist[i].title) = normalized_title}
    IN  IF hits = {} THEN watchlist
        ELSE SubSeq(watchlist, 1, SetMax(hits) - 1)
             \o SubSeq(watchlist, SetMax(hits) + 1, Len(watchlist))

\* the loop of api_remove_watchlist_item: the last entry with the title,
\* and with the year when the key names one, is popped
RemoveFromWatchlist(watchlist, normalized_title, year_part) ==
    LET hits == {i \in DOMAIN watchlist :
                    /\ NormalizeMovieTitle(watchlist[i].title) = normalized_title
                    /\ year_part = <<>> \/ Strip(watchlist[i].year) = year_part}
    IN  IF hits = {} THEN watchlist
        ELSE SubSeq(watchlist, 1, SetMax(hits) - 1)
             \o SubSeq(watchlist, SetMax(hits) + 1, Len(watchlist))

\* the exclude_titles loop over list(exclude_keys)
ExcludeTitles(exclude_list) ==
    SelectSeq([i \in DOMAIN exclude_list |-> Strip(BeforeSep(exclude_list[i]))],
              LAMBDA t : t # <<>>)

\* the liked_context loop: titles in order, one per normalized title
RECURSIVE LikedContext(_, _)
LikedContext(titles, seen_like) ==
    IF titles = <<>> THEN <<>>
    ELSE LET nt == NormalizeMovieTitle(Head(titles)) IN
         IF nt = <<>> \/ nt \in seen_like THEN LikedContext(Tail(titles), seen_like)
         ELSE <<Head(titles)>> \o LikedContext(Tail(titles), seen_like \cup {nt})

\* [str(w.get("title", "")).strip() for w in watchlist_movies if ...]
LikedWatchlist(watchlist) ==
    SelectSeq([i \in DOMAIN watchlist |-> Strip(watchlist[i].title)], LAMBDA t : t # <<>>)

\* title_to_key of api_get_recommendation_batch: the first movie of a title wins
TitleToKey(top250) ==
    LET title == [i \in DOMAIN top250 |-> NormalizeMovieTitle(top250[i].title)] \o <<>>
        titled == {i \in DOMAIN top250 : title[i] # <<>>}
        First(t) == CHOOSE i \in titled :
                        title[i] = t /\ \A j \in titled : title[j] = t => i <= j
    IN  [t \in {title[i] : i \in titled} |->
            AppMovieKey(top250[First(t)].title, top250[First(t)].year)]

\* the image fix-up of the locally recommended movies
FixImage(m) ==
    IF Strip(m.image) = <<>> \/ Strip(m.image) = LogoSvg
    THEN [m EXCEPT !.image = DefaultPoster] ELSE m

\* the loop over the oracle's picks in regular mode
RECURSIVE RegularExtra(_, _, _, _, _, _, _, _)
RegularExtra(picks, watched, excluded, need, extra, cache, has_key, posters) ==
    IF picks = <<>> THEN [out |-> extra, cache |-> cache]
    ELSE LET p == Head(picks)
             title_v == Strip(p.title)
             year_v == Strip(p.year)
             key == AppMovieKey(title_v, year_v)
             looked == GetTmdbPosterUrl(title_v, year_v, cache, has_key, posters)
             more == Append(extra, [title |-> title_v, year |-> year_v,
                                    director |-> Strip(p.director),
                                    image |-> ImageUrl(looked.url),
                                    why_it_fits |-> Strip(p.why_it_fits)])
         IN  IF title_v = <<>> \/ key \in watched \/ key \in excluded
             THEN RegularExtra(Tail(picks), watched, excluded, need, extra, cache, has_key, posters)
             ELSE IF Len(more) >= need THEN [out |-> more, cache |-> looked.cache]
             ELSE RegularExtra(Tail(picks), watched, excluded, need, more, looked.cache,
                               has_key, posters)

\* the loop over the oracle's picks in super mode
RECURSIVE SuperOut(_, _, _, _, _, _, _, _, _)
SuperOut(picks, watched, excluded, seen_resp, limit, out, cache, has_key, posters) ==
    IF picks = <<>> THEN [out |-> out, cache |-> cache]
    ELSE LET p == Head(picks)
             title_v == Strip(p.title)
             year_v == Strip(p.year)
             key == AppMovieKey(title_v, year_v)
             looked == GetTmdbPosterUrl(title_v, year_v, cache, has_key, posters)
             more == Append(out, [title |-> title_v, year |-> year_v,
                                  director |-> Strip(p.director),
                                  image |-> ImageUrl(looked.url),
                                  why_it_fits |-> <<>>])
         IN  IF title_v = <<>> \/ key \in watched \/ key \in excluded \/ key \in seen_resp
             THEN SuperOut(Tail(picks), watched, excluded, seen_resp, limit, out, cache,
                           has_key, posters)
             ELSE IF Len(more) >= limit THEN [out |-> more, cache |-> looked.cache]
             ELSE SuperOut(Tail(picks), watched, excluded, seen_resp \cup {key}, limit, more,
                           looked.cache, has_key, posters)

-----------------------------------------------------------------------------
(* app.py: the requests, the model's answers and the database file *)

MaxClicks == 2

RegularBatchSize == 80
SuperBatchSize == 50

\* movie_database_top250.json: BaseCatalog and an entry with a foreign title
SmallDatabase ==
    BaseCatalog \o
    << Movie(<<NonAsciiChar>>, <<"1">>, <<"Drama">>, <<Tom>>, <<Dee>>, PosterHttp, Some(95000)) >>

\* rows of an uploaded CSV, as csv.DictReader gives them
RowA == [Name |-> <<"A">>, Year |-> <<"1">>, Rating |-> <<"5">>]
RowC == [Name |-> <<" ">>, Title |-> <<" ", "C", " ">>, Year |-> <<"1">>, Rating |-> <<"x">>]
RowM == [Name |-> <<"M", "0", "2">>, Year |-> <<"3">>, Stars |-> <<"1", "0">>]
RowBlank == [Name |-> <<" ">>, Year |-> <<"2">>]

CsvName == <<"a", ".", "C", "S", "V">>
DotCsv == <<".", "c", "s", "v">>

UploadRequest(has_file, filename, parses, rows) ==
    [has_file |-> has_file, filename |-> filename, parses |-> parses, rows |-> rows]

\* the multipart bodies sent to /upload
UploadRequests ==
    { UploadRequest(FALSE, <<>>, TRUE, <<>>),
      UploadRequest(TRUE, <<" ">>, TRUE, <<RowA>>),
      UploadRequest(TRUE, <<"a", ".", "t", "x", "t">>, TRUE, <<RowA>>),
      UploadRequest(TRUE, CsvName, FALSE, <<>>),
      UploadRequest(TRUE, CsvName, TRUE, <<>>),
      UploadRequest(TRUE, CsvName, TRUE, <<RowBlank>>),
      UploadRequest(TRUE, CsvName, TRUE, <<RowA>>),
      UploadRequest(TRUE, CsvName, TRUE, <<RowBlank, RowA, RowC>>),
      UploadRequest(TRUE, CsvName, TRUE, <<RowM>>) }

LikeRequest(is_dict, title, year) ==
    [is_dict |-> is_dict, title |-> title, year |-> year, director |-> Dee, image |-> PosterHttp]

\* the JSON bodies sent to /api/like
LikeRequests ==
    { LikeRequest(FALSE, <<>>, <<>>),
      LikeRequest(TRUE, <<" ">>, <<>>),
      LikeRequest(TRUE, <<" ", "D">>, <<>>),
      LikeRequest(TRUE, <<"x">>, <<"9">>) }

\* the JSON bodies sent to /api/click: "d " is the "D" of /api/like in
\* another letter case, with a year
ClickRequests ==
    { LikeRequest(FALSE, <<>>, <<>>),
      LikeRequest(TRUE, <<>>, <<"1">>),
      LikeRequest(TRUE, <<"d", " ">>, <<"1">>) }

RemoveRequest(is_dict, key) == [is_dict |-> is_dict, key |-> key]

\* the JSON bodies sent to /api/watchlist/remove: no object; a blank key;
\* a key without a title; a title alone; a title with the year of an
\* entry; a title with another year; a title the watchlist lacks
RemoveRequests ==
    { RemoveRequest(FALSE, <<>>),
      RemoveRequest(TRUE, <<" ">>),
      RemoveRequest(TRUE, <<":", ":", "1">>),
      RemoveRequest(TRUE, <<" ", "D", ":", ":">>),
      RemoveRequest(TRUE, <<"d", ":", ":", "1">>),
      RemoveRequest(TRUE, <<"x", ":", ":", "8">>),
      RemoveRequest(TRUE, <<"q">>) }

BatchRequest(json, md, liked, excluded, pref_actors, pref_directors) ==
    [json |-> json, mode |-> md, liked_titles |-> liked, exclude_keys |-> excluded,
     preferredActors |-> pref_actors, preferredDirectors |-> pref_directors]

\* the JSON bodies sent to /api/batch: no body or a falsy one ("absent"), a
\* truthy one that is not an object ("array"), or an object
BatchRequests ==
    { BatchRequest("absent", <<>>, <<>>, <<>>, <<>>, <<>>),
      BatchRequest("array", <<>>, <<>>, <<>>, <<>>, <<>>) }
    \cup
    { BatchRequest("object", md, liked[1], excluded, liked[2], liked[3]) :
        md \in {ModeRegular, <<" ", "S", "U", "P", "E", "R">>},
        liked \in { <<<<>>, <<>>, <<>>>>,
                    <<<<<<" ", "D">>, <<"d">>, <<" ">>>>, <<<<" ", "t">>>>, <<Kay>>>> },
        excluded \in {<<>>, <<MovieKey(<<"E">>, <<"2">>), <<" ">>>>} }

OraclePick(title, year) ==
    [title |-> title, year |-> year, director |-> Dee, why_it_fits |-> <<"w">>]

\* movies the model recommends: a new one twice, one of the catalog (watched
\* after some uploads) and one without a title
Picks ==
    << OraclePick(<<" ", "X">>, <<"9">>), OraclePick(<<"A">>, <<"1">>),
       OraclePick(<<" ">>, <<>>), OraclePick(<<"X">>, <<"9">>) >>

Answer(kind, items) ==
    [kind |-> kind, items |-> items, movies |-> items, profiles |-> EmptyDict]

\* what the model may answer to one query
Answers ==
    { Answer("error", <<>>), Answer("text", <<>>), Answer("list", Picks),
      Answer("object", Picks) }

\* the titles TMDb has a poster for
TmdbPosters == {<<"X">>}

-----------------------------------------------------------------------------
(* app.py: the request handlers *)

Response(status, body) == [status |-> status, body |-> body]

\* UploadCsv clearing the stored lines before it validates the file
UploadCsvClearingFirst ==
    /\ op = "none"
    /\ \E req \in UploadRequests :
        LET filename == Strip(req.filename)
            parsed_movies == ParseUploadedCsvRows(req.rows)
            watched_lines == BuildWatchedLinesForGemini(parsed_movies)
            error ==
                IF ~req.has_file THEN Some(Response(400, [error |-> "No file provided"]))
                ELSE IF filename = <<>> THEN Some(Response(400, [error |-> "No file selected"]))
                ELSE IF ~EndsWith(Lower(filename), DotCsv)
                THEN Some(Response(400, [error |-> "File must be a CSV"]))
                ELSE IF ~req.parses THEN Some(Response(500, [error |-> "Failed to parse CSV"]))
                ELSE IF req.rows = <<>> THEN Some(Response(400, [error |-> "No rows found in CSV"]))
                ELSE IF watched_lines = <<>>
                THEN Some(Response(400, [error |-> "No movie titles found in CSV"]))
                ELSE None
        IN  /\ op' = "upload_csv"
            /\ locals' = <<>>
            /\ oracle_calls' = <<>>
            /\ IF error # None
               THEN /\ ret' = error[1]
                    /\ _last_uploaded_watched_movies_lines' = <<>>
                    /\ UNCHANGED <<_last_uploaded_watched_movies,
                                   _last_uploaded_watched_rating_by_key,
                                   current_recommendations>>
               ELSE /\ ret' = Response(200, [message |-> "CSV uploaded and parsed successfully",
                                             rows |-> Len(req.rows), csv_uploaded |-> TRUE])
                    /\ _last_uploaded_watched_movies_lines' = watched_lines
                    /\ _last_uploaded_watched_movies' = parsed_movies
                    /\ _last_uploaded_watched_rating_by_key' = RatingByKey(parsed_movies, EmptyDict)
                    /\ current_recommendations' = <<>>
            /\ UNCHANGED <<callVars, watchlist_movies, total_movie_click_count,
                           tmdb_poster_cache, _TOP250_MOVIES, gemini_imported, TMDB_API_KEY,
                           database>>

\* UploadCsv storing the parsed rows before it looks for titles in them
UploadCsvStoringBeforeTitles ==
    /\ op = "none"
    /\ \E req \in UploadRequests :
        LET filename == Strip(req.filename)
            parsed_movies == ParseUploadedCsvRows(req.rows)
            watched_lines == BuildWatchedLinesForGemini(parsed_movies)
            error ==
                IF ~req.has_file THEN Some(Response(400, [error |-> "No file provided"]))
                ELSE IF filename = <<>> THEN Some(Response(400, [error |-> "No file selected"]))
                ELSE IF ~EndsWith(Lower(filename), DotCsv)
                THEN Some(Response(400, [error |-> "File must be a CSV"]))
                ELSE IF ~req.parses THEN Some(Response(500, [error |-> "Failed to parse CSV"]))
                ELSE IF req.rows = <<>> THEN Some(Response(400, [error |-> "No rows found in CSV"]))
                ELSE IF watched_lines = <<>>
                THEN Some(Response(400, [error |-> "No movie titles found in CSV"]))
                ELSE None
        IN  /\ op' = "upload_csv"
            /\ locals' = <<>>
            /\ oracle_calls' = <<>>
            /\ IF error # None
               THEN /\ ret' = error[1]
                    /\ _last_uploaded_watched_movies' =
                          IF req.has_file /\ req.parses /\ req.rows # <<>>
                          THEN parsed_movies ELSE _last_uploaded_watched_movies
                    /\ UNCHANGED <<_last_uploaded_watched_movies_lines,
                                   _last_uploaded_watched_rating_by_key,
                                   current_recommendations>>
               ELSE /\ ret' = Response(200, [message |-> "CSV uploaded and parsed successfully",
                                             rows |-> Len(req.rows), csv_uploaded |-> TRUE])
                    /\ _last_uploaded_watched_movies_lines' = watched_lines
                    /\ _last_uploaded_watched_movies' = parsed_movies
                    /\ _last_uploaded_watched_rating_by_key' = RatingByKey(parsed_movies, EmptyDict)
                    /\ current_recommendations' = <<>>
            /\ UNCHANGED <<callVars, watchlist_movies, total_movie_click_count,
                           tmdb_poster_cache, _TOP250_MOVIES, gemini_imported, TMDB_API_KEY,
                           database>>

\* POST /upload
UploadCsv ==
    /\ op = "none"
    /\ \E req \in UploadRequests :
        LET filename == Strip(req.filename)
            parsed_movies == ParseUploadedCsvRows(req.rows)
            watched_lines == BuildWatchedLinesForGemini(parsed_movies)
            error ==
                IF ~req.has_file THEN Some(Response(400, [error |-> "No file provided"]))
                ELSE IF filename = <<>> THEN Some(Response(400, [error |-> "No file selected"]))
                ELSE IF ~EndsWith(Lower(filename), DotCsv)
                THEN Some(Response(400, [error |-> "File must be a CSV"]))
                ELSE IF ~req.parses THEN Some(Response(500, [error |-> "Failed to parse CSV"]))
                ELSE IF req.rows = <<>> THEN Some(Response(400, [error |-> "No rows found in CSV"]))
                ELSE IF watched_lines = <<>>
                THEN Some(Response(400, [error |-> "No movie titles found in CSV"]))
                ELSE None
        IN  /\ op' = "upload_csv"
            /\ locals' = <<>>
            /\ oracle_calls' = <<>>
            /\ IF error # None
               THEN /\ ret' = error[1]
                    /\ UNCHANGED <<_last_uploaded_watched_movies_lines,
                                   _last_uploaded_watched_movies,
                                   _last_uploaded_watched_rating_by_key,
                                   current_recommendations>>
               ELSE /\ ret' = Response(200, [message |-> "CSV uploaded and parsed successfully",
                                             rows |-> Len(req.rows), csv_uploaded |-> TRUE])
                    /\ _last_uploaded_watched_movies_lines' = watched_lines
                    /\ _last_uploaded_watched_movies' = parsed_movies
                    /\ _last_uploaded_watched_rating_by_key' = RatingByKey(parsed_movies, EmptyDict)
                    /\ current_recommendations' = <<>>
            /\ UNCHANGED <<callVars, watchlist_movies, total_movie_click_count,
                           tmdb_poster_cache, _TOP250_MOVIES, gemini_imported, TMDB_API_KEY,
                           database>>

\* ApiLikeMovie counting a like only when it adds a watchlist entry
ApiLikeMovieCountingNewOnly ==
    /\ op = "none"
    /\ total_movie_click_count < MaxClicks
    /\ \E req \in LikeRequests :
          /\ op' = "api_like_movie"
          /\ locals' = IF req.is_dict THEN [title |-> Strip(req.title), year |-> Strip(req.year)]
                       ELSE <<>>
          /\ oracle_calls' = <<>>
          /\ IF ~req.is_dict
             THEN /\ ret' = Response(400, [success |-> FALSE, error |-> "Invalid JSON body"])
                  /\ UNCHANGED <<watchlist_movies, total_movie_click_count>>
             ELSE IF Strip(req.title) = <<>>
             THEN /\ ret' = Response(400, [success |-> FALSE, error |-> "Missing 'title'"])
                  /\ UNCHANGED <<watchlist_movies, total_movie_click_count>>
             ELSE /\ watchlist_movies' =
                        AddMovieToWatchlist(watchlist_movies,
                                            [title |-> Strip(req.title), year |-> Strip(req.year),
                                             director |-> Strip(req.director),
                                             image |-> Strip(req.image)])
                  /\ total_movie_click_count' =
                        IF watchlist_movies' = watchlist_movies THEN total_movie_click_count
                        ELSE total_movie_click_count + 1
                  /\ ret' = Response(200, [success |-> TRUE,
                                           total_clicks |-> total_movie_click_count'])
          /\ UNCHANGED <<callVars, _last_uploaded_watched_movies_lines,
                         _last_uploaded_watched_movies, _last_uploaded_watched_rating_by_key,
                         current_recommendations, tmdb_poster_cache, _TOP250_MOVIES,
                         gemini_imported, TMDB_API_KEY, database>>

\* POST /api/like
ApiLikeMovie ==
    /\ op = "none"
    /\ total_movie_click_count < MaxClicks
    /\ \E req \in LikeRequests :
          /\ op' = "api_like_movie"
          /\ locals' = IF req.is_dict THEN [title |-> Strip(req.title), year |-> Strip(req.year)]
                       ELSE <<>>
          /\ oracle_calls' = <<>>
          /\ IF ~req.is_dict
             THEN /\ ret' = Response(400, [success |-> FALSE, error |-> "Invalid JSON body"])
                  /\ UNCHANGED <<watchlist_movies, total_movie_click_count>>
             ELSE IF Strip(req.title) = <<>>
             THEN /\ ret' = Response(400, [success |-> FALSE, error |-> "Missing 'title'"])
                  /\ UNCHANGED <<watchlist_movies, total_movie_click_count>>
             ELSE /\ watchlist_movies' =
                        AddMovieToWatchlist(watchlist_movies,
                                            [title |-> Strip(req.title), year |-> Strip(req.year),
                                             director |-> Strip(req.director),
                                             image |-> Strip(req.image)])
                  /\ total_movie_click_count' = total_movie_click_count + 1
                  /\ ret' = Response(200, [success |-> TRUE,
                                           total_clicks |-> total_movie_click_count + 1])
          /\ UNCHANGED <<callVars, _last_uploaded_watched_movies_lines,
                         _last_uploaded_watched_movies, _last_uploaded_watched_rating_by_key,
                         current_recommendations, tmdb_poster_cache, _TOP250_MOVIES,
                         gemini_imported, TMDB_API_KEY, database>>

\* POST /api/click
ApiClickMovie ==
    /\ op = "none"
    /\ total_movie_click_count < MaxClicks
    /\ \E req \in ClickRequests :
          /\ op' = "api_click_movie"
          /\ locals' = IF req.is_dict THEN [title |-> Strip(req.title), year |-> Strip(req.year)]
                       ELSE <<>>
          /\ oracle_calls' = <<>>
          /\ IF ~req.is_dict
             THEN /\ ret' = Response(400, [success |-> FALSE, error |-> "Invalid JSON body"])
                  /\ UNCHANGED <<watchlist_movies, total_movie_click_count>>
             ELSE IF Strip(req.title) = <<>>
             THEN /\ ret' = Response(400, [success |-> FALSE, error |-> "Missing 'title'"])
                  /\ UNCHANGED <<watchlist_movies, total_movie_click_count>>
             ELSE /\ watchlist_movies' =
                        AddMovieToWatchlist(watchlist_movies,
                                            [title |-> Strip(req.title), year |-> Strip(req.year),
                                             director |-> Strip(req.director),
                                             image |-> Strip(req.image)])
                  /\ total_movie_click_count' = total_movie_click_count + 1
                  /\ ret' = Response(200, [success |-> TRUE,
                                           total_clicks |-> total_movie_click_count + 1])
          /\ UNCHANGED <<callVars, _last_uploaded_watched_movies_lines,
                         _last_uploaded_watched_movies, _last_uploaded_watched_rating_by_key,
                         current_recommendations, tmdb_poster_cache, _TOP250_MOVIES,
                         gemini_imported, TMDB_API_KEY, database>>

\* POST /api/watchlist/remove
ApiRemoveWatchlistItem ==
    /\ op = "none"
    /\ \E req \in RemoveRequests :
        LET raw_key == Strip(req.key)
            normalized_title == Lower(Strip(BeforeSep(raw_key)))
            year_part == Strip(AfterSep(raw_key))
            remaining == RemoveFromWatchlist(watchlist_movies, normalized_title, year_part)
        IN  /\ op' = "api_remove_watchlist_item"
            /\ oracle_calls' = <<>>
            /\ IF ~req.is_dict
               THEN /\ ret' = Response(400, [success |-> FALSE, error |-> "Invalid JSON body"])
                    /\ locals' = <<>>
                    /\ UNCHANGED watchlist_movies
               ELSE IF raw_key = <<>>
               THEN /\ ret' = Response(400, [success |-> FALSE, error |-> "Missing 'key'"])
                    /\ locals' = <<>>
                    /\ UNCHANGED watchlist_movies
               ELSE IF normalized_title = <<>>
               THEN /\ ret' = Response(400, [success |-> FALSE, error |-> "Invalid key"])
                    /\ locals' = <<>>
                    /\ UNCHANGED watchlist_movies
               ELSE /\ watchlist_movies' = remaining
                    /\ locals' = [normalized_title |-> normalized_title, year_part |-> year_part]
                    /\ ret' = Response(200, [success |-> TRUE,
                                             removed |-> remaining # watchlist_movies,
                                             watchlist_size |-> Len(remaining)])
            /\ UNCHANGED <<callVars, _last_uploaded_watched_movies_lines,
                           _last_uploaded_watched_movies, _last_uploaded_watched_rating_by_key,
                           current_recommendations, total_movie_click_count, tmdb_poster_cache,
                           _TOP250_MOVIES, gemini_imported, TMDB_API_KEY, database>>

\* POST /api/refresh: refresh_all_recommendations asks request_movies_from_gemini,
\* which returns no movie because both legacy hooks it tests are None
ApiRefreshRecommendations ==
    /\ op = "none"
    /\ op' = "api_refresh_recommendations"
    /\ current_recommendations' = <<>>
    /\ ret' = Response(200, [success |-> TRUE, new_recommendations |-> <<>>])
    /\ locals' = <<>>
    /\ oracle_calls' = <<>>
    /\ UNCHANGED <<callVars, _last_uploaded_watched_movies_lines,
                   _last_uploaded_watched_movies, _last_uploaded_watched_rating_by_key,
                   watchlist_movies, total_movie_click_count,
                   tmdb_poster_cache, _TOP250_MOVIES, gemini_imported, TMDB_API_KEY, database>>

\* GET /api/click-count
ApiGetClickCount ==
    /\ op = "none"
    /\ op' = "api_get_click_count"
    /\ ret' = Response(200, [count |-> total_movie_click_count])
    /\ locals' = <<>>
    /\ oracle_calls' = <<>>
    /\ UNCHANGED <<callVars, _last_uploaded_watched_movies_lines,
                   _last_uploaded_watched_movies, _last_uploaded_watched_rating_by_key,
                   current_recommendations, watchlist_movies, total_movie_click_count,
                   tmdb_poster_cache, _TOP250_MOVIES, gemini_imported, TMDB_API_KEY, database>>

\* one query of the model and the model's reply to it, as the log of the
\* request's queries records them
OracleQuery(fn, watched_lines, liked_titles, exclude_titles, count, reminder, reply) ==
    [fn |-> fn, watched_lines |-> watched_lines, liked_titles |-> liked_titles,
     exclude_titles |-> exclude_titles, count |-> count, reminder |-> reminder,
     reply |-> reply]

\* the regular branch of api_get_recommendation_batch
BatchRegular(md, liked_titles, excluded, watched, pref_actors, pref_directors) ==
    \E top250 \in {IF _TOP250_MOVIES = None THEN LoadTop250(database) ELSE _TOP250_MOVIES[1]} :
    \E title_to_key \in {TitleToKey(top250)} :
    LET liked_ctx == {title_to_key[NormalizeMovieTitle(t)] :
                         t \in {u \in Range(liked_titles) :
                                   NormalizeMovieTitle(u) \in DOMAIN title_to_key}}
    IN  \E watched_list \in Orderings(watched), liked_list \in Orderings(liked_ctx),
           exclude_list \in Orderings(excluded) :
        \E local \in {RecommendBatch(top250, watched_list, excluded, liked_list,
                                      _last_uploaded_watched_rating_by_key, ModeRegular,
                                      RegularBatchSize, pref_actors, pref_directors)} :
        \E answer \in (IF Len(local) < RegularBatchSize /\ gemini_imported
                        THEN Answers ELSE {Answer("error", <<>>)}) :
            LET movies == [i \in DOMAIN local |-> FixImage(local[i])]
                fallback == Len(movies) < RegularBatchSize /\ gemini_imported
                need == RegularBatchSize - Len(movies)
                liked_context ==
                    LikedContext(Take(liked_titles \o LikedWatchlist(watchlist_movies), 300), {})
                watched_lines == Take(_last_uploaded_watched_movies_lines, 500)
                exclude_titles ==
                    ExcludeTitles(Take(exclude_list, 700))
                    \o [i \in DOMAIN movies |-> Strip(movies[i].title)]
                count == Min(need + 25, 120)
                asked == AskRegularRecommendations(answer, count)
                extra == IF fallback /\ ~asked.raised
                         THEN RegularExtra(asked.value, watched, excluded, need, <<>>,
                                           tmdb_poster_cache, TMDB_API_KEY, TmdbPosters)
                         ELSE [out |-> <<>>, cache |-> tmdb_poster_cache]
            IN  /\ ret' = Response(200, [movies |-> Take(movies \o extra.out, RegularBatchSize),
                                         batch_size |-> RegularBatchSize, mode |-> md])
                /\ _TOP250_MOVIES' = Some(top250)
                /\ tmdb_poster_cache' = extra.cache
                /\ oracle_calls' =
                      IF fallback
                      THEN <<OracleQuery("ask_regular_recommendations", watched_lines,
                                         liked_context, exclude_titles, count, FALSE,
                                         answer)>>
                      ELSE <<>>
                /\ locals' = [mode |-> md, watched_keys |-> watched, exclude_keys |-> excluded,
                              liked_keys_context |-> liked_ctx, movies |-> movies]

\* the super branch of api_get_recommendation_batch
BatchSuper(md, liked_titles, excluded, watched) ==
    /\ UNCHANGED _TOP250_MOVIES
    /\ locals' = [mode |-> md, watched_keys |-> watched, exclude_keys |-> excluded]
    /\ IF ~gemini_imported
       THEN /\ ret' = Response(500, [error |-> "Gemini is not configured on the server."])
            /\ oracle_calls' = <<>>
            /\ UNCHANGED tmdb_poster_cache
       ELSE \E exclude_list \in Orderings(excluded), first \in Answers :
            \E second \in (IF Failed(first) THEN Answers ELSE {first}) :
                LET watched_lines == Take(_last_uploaded_watched_movies_lines, 450)
                    liked_context ==
                        LikedContext(Take(liked_titles \o LikedWatchlist(watchlist_movies), 350), {})
                    exclude_titles ==
                        ExcludeTitles(Take(exclude_list, 400)) \o Take(liked_context, 200)
                    asked == AskSuperRecommendations(<<first, second>>, SuperBatchSize)
                    built == SuperOut(asked.value.movies, watched, excluded, {}, SuperBatchSize,
                                      <<>>, tmdb_poster_cache, TMDB_API_KEY, TmdbPosters)
                IN  /\ oracle_calls' =
                          [q \in 1..asked.queries |->
                              OracleQuery("ask_super_recommendations", watched_lines,
                                          liked_context, exclude_titles, SuperBatchSize, q = 2,
                                          <<first, second>>[q])]
                    /\ IF asked.raised
                       THEN /\ ret' = Response(502, [error |-> "Gemini failed to generate a valid batch. Please retry."])
                            /\ UNCHANGED tmdb_poster_cache
                       ELSE /\ ret' = Response(200, [movies |-> built.out,
                                                     batch_size |-> SuperBatchSize,
                                                     mode |-> md,
                                                     profiles |-> asked.value.profiles])
                            /\ tmdb_poster_cache' = built.cache

\* POST /api/batch
ApiGetRecommendationBatch ==
    /\ op = "none"
    /\ \E req \in BatchRequests :
        LET given == req.json = "object"
            md0 == Lower(Strip(IF given /\ req.mode # <<>> THEN req.mode ELSE ModeRegular))
            md == IF md0 \in {ModeRegular, ModeSuper} THEN md0 ELSE ModeRegular
            liked_raw == IF given THEN req.liked_titles ELSE <<>>
            liked_titles == SelectSeq([i \in DOMAIN liked_raw |-> Strip(liked_raw[i])],
                                      LAMBDA t : t # <<>>)
            exclude_raw == IF given THEN req.exclude_keys ELSE <<>>
            excluded == {Strip(k) : k \in Range(exclude_raw)} \ {<<>>}
            named == Named(_last_uploaded_watched_movies)
            watched == {AppMovieKey(Strip(named[i].name), Strip(named[i].year)) : i \in DOMAIN named}
            actors_raw == IF given THEN req.preferredActors ELSE <<>>
            directors_raw == IF given THEN req.preferredDirectors ELSE <<>>
            pref_actors == [i \in DOMAIN actors_raw |-> Strip(actors_raw[i])]
            pref_directors == [i \in DOMAIN directors_raw |-> Strip(directors_raw[i])]
        IN  /\ op' = "api_get_recommendation_batch"
            /\ UNCHANGED <<callVars, _last_uploaded_watched_movies_lines,
                           _last_uploaded_watched_movies, _last_uploaded_watched_rating_by_key,
                           current_recommendations, watchlist_movies, total_movie_click_count,
                           gemini_imported, TMDB_API_KEY, database>>
            /\ IF req.json = "array"
               THEN /\ ret' = Response(400, [error |-> "Invalid JSON body"])
                    /\ locals' = <<>>
                    /\ oracle_calls' = <<>>
                    /\ UNCHANGED <<_TOP250_MOVIES, tmdb_poster_cache>>
               ELSE IF _last_uploaded_watched_movies_lines = <<>>
               THEN /\ ret' = Response(400, [error |-> "No CSV uploaded yet."])
                    /\ locals' = <<>>
                    /\ oracle_calls' = <<>>
                    /\ UNCHANGED <<_TOP250_MOVIES, tmdb_poster_cache>>
               ELSE IF md = ModeRegular
               THEN BatchRegular(md, liked_titles, excluded, watched, pref_actors, pref_directors)
               ELSE BatchSuper(md, liked_titles, excluded, watched)

AppInit ==
    /\ candidates = <<>>
    /\ watched_keys = {}
    /\ exclude_keys = {}
    /\ liked_keys_context = {}
    /\ watched_rating_by_key = EmptyDict
    /\ mode = ModeRegular
    /\ batch_size = 1
    /\ preferred_actors = <<>>
    /\ preferred_directors = <<>>
    /\ op = "none"
    /\ ret = <<>>
    /\ locals = <<>>
    /\ Constructed
    /\ \/ /\ database = SmallDatabase
          /\ gemini_imported \in BOOLEAN
          /\ TMDB_API_KEY \in BOOLEAN
       \/ /\ database = BigCatalog
          /\ gemini_imported = TRUE
          /\ TMDB_API_KEY = FALSE

\* the response is sent and the handler's locals are gone; the server (one
\* request at a time) takes the next request
Respond ==
    /\ op # "none"
    /\ op' = "none"
    /\ ret' = <<>>
    /\ locals' = <<>>
    /\ oracle_calls' = <<>>
    /\ UNCHANGED <<callVars, _last_uploaded_watched_movies_lines,
                   _last_uploaded_watched_movies, _last_uploaded_watched_rating_by_key,
                   current_recommendations, watchlist_movies, total_movie_click_count,
                   tmdb_poster_cache, _TOP250_MOVIES, gemini_imported, TMDB_API_KEY, database>>

AppNext == UploadCsv \/ ApiLikeMovie \/ ApiGetRecommendationBatch \/ Respond

AppSpec == AppInit /\ [][AppNext]_vars

\* the same server taking every request that reads or writes the watchlist,
\* the click counter or the uploaded history
SessionInit == AppInit /\ database = SmallDatabase /\ ~TMDB_API_KEY

SessionNext ==
    \/ UploadCsv
    \/ ApiLikeMovie
    \/ ApiClickMovie
    \/ ApiRemoveWatchlistItem
    \/ ApiGetClickCount
    \/ ApiRefreshRecommendations
    \/ ApiGetRecommendationBatch
    \/ Respond

SessionSpec == SessionInit /\ [][SessionNext]_vars

-----------------------------------------------------------------------------
(* app.py on the threaded server: one thread answering /upload requests    *)
(* and one answering /api/batch requests, each statement that reads or     *)
(* writes a global being one step. The handlers take no lock. Here op is   *)
(* "threads", locals holds the locals of both threads and ret the response *)
(* each of them is about to send.                                          *)

MaxUploads == 2

\* the three globals an upload that passed its validation stores
UploadedState(parsed_movies, watched_lines) ==
    [lines |-> watched_lines, movies |-> parsed_movies,
     ratings |-> RatingByKey(parsed_movies, EmptyDict)]

IdleUpload == [pc |-> "idle", parsed_movies |-> <<>>, watched_lines |-> <<>>, i |-> 1]

\* lines, movies and ratings are what the thread has read of the globals so
\* far; allowed and had_upload are kept for the claims: the complete states
\* of the uploads that had succeeded last or were running since the request
\* began, and whether one had succeeded when it began
IdleBatch ==
    [pc |-> "idle", lines |-> <<>>, movies |-> <<>>, ratings |-> EmptyDict,
     allowed |-> {}, had_upload |-> FALSE]

ThreadedInit ==
    /\ candidates = <<>>
    /\ watched_keys = {}
    /\ exclude_keys = {}
    /\ liked_keys_context = {}
    /\ watched_rating_by_key = EmptyDict
    /\ mode = ModeRegular
    /\ batch_size = 1
    /\ preferred_actors = <<>>
    /\ preferred_directors = <<>>
    /\ op = "threads"
    /\ ret = [upload |-> None, batch |-> None]
    /\ locals = [upload |-> IdleUpload, batch |-> IdleBatch, uploads |-> 0,
                 committed |-> None]
    /\ Constructed
    /\ database = SmallDatabase
    /\ gemini_imported = FALSE
    /\ TMDB_API_KEY = FALSE

\* what no step of the two threads writes
ThreadsFrame ==
    UNCHANGED <<callVars, op, watchlist_movies, total_movie_click_count, tmdb_poster_cache,
                gemini_imported, TMDB_API_KEY, database, oracle_calls>>

\* the upload thread is at the statement named pc
UploadAt(pc) == locals.upload.pc = pc

\* the upload thread moves on to the statement named pc
UploadGoes(pc) == locals' = [locals EXCEPT !.upload.pc = pc]

\* upload_csv up to its last validation
UploadReceive ==
    /\ UploadAt("idle")
    /\ locals.uploads < MaxUploads
    /\ \E req \in UploadRequests :
        LET filename == Strip(req.filename)
            parsed_movies == ParseUploadedCsvRows(req.rows)
            watched_lines == BuildWatchedLinesForGemini(parsed_movies)
            error ==
                IF ~req.has_file THEN Some(Response(400, [error |-> "No file provided"]))
                ELSE IF filename = <<>> THEN Some(Response(400, [error |-> "No file selected"]))
                ELSE IF ~EndsWith(Lower(filename), DotCsv)
                THEN Some(Response(400, [error |-> "File must be a CSV"]))
                ELSE IF ~req.parses THEN Some(Response(500, [error |-> "Failed to parse CSV"]))
                ELSE IF req.rows = <<>> THEN Some(Response(400, [error |-> "No rows found in CSV"]))
                ELSE IF watched_lines = <<>>
                THEN Some(Response(400, [error |-> "No movie titles found in CSV"]))
                ELSE None
        IN  IF error # None
            THEN /\ ret' = [ret EXCEPT !.upload = error]
                 /\ locals' = [locals EXCEPT !.upload.pc = "responded",
                                             !.uploads = @ + 1]
            ELSE /\ ret' = ret
                 /\ locals' =
                       [locals EXCEPT
                          !.upload = [pc |-> "clear_lines", parsed_movies |-> parsed_movies,
                                      watched_lines |-> watched_lines, i |-> 1],
                          !.uploads = @ + 1,
                          !.batch.allowed =
                              IF locals.batch.pc \in {"watched_keys", "recommend"}
                              THEN @ \cup {UploadedState(parsed_movies, watched_lines)}
                              ELSE @]
    /\ UNCHANGED <<_last_uploaded_watched_movies_lines, _last_uploaded_watched_movies,
                   _last_uploaded_watched_rating_by_key, current_recommendations,
                   _TOP250_MOVIES>>
    /\ ThreadsFrame

\* _last_uploaded_watched_movies_lines.clear()
UploadClearLines ==
    /\ UploadAt("clear_lines")
    /\ _last_uploaded_watched_movies_lines' = <<>>
    /\ UploadGoes("extend_lines")
    /\ UNCHANGED <<ret, _last_uploaded_watched_movies, _last_uploaded_watched_rating_by_key,
                   current_recommendations, _TOP250_MOVIES>>
    /\ ThreadsFrame

\* _last_uploaded_watched_movies_lines.extend(watched_lines)
UploadExtendLines ==
    /\ UploadAt("extend_lines")
    /\ _last_uploaded_watched_movies_lines' =
          _last_uploaded_watched_movies_lines \o locals.upload.watched_lines
    /\ UploadGoes("clear_movies")
    /\ UNCHANGED <<ret, _last_uploaded_watched_movies, _last_uploaded_watched_rating_by_key,
                   current_recommendations, _TOP250_MOVIES>>
    /\ ThreadsFrame

\* _last_uploaded_watched_movies.clear()
UploadClearMovies ==
    /\ UploadAt("clear_movies")
    /\ _last_uploaded_watched_movies' = <<>>
    /\ UploadGoes("extend_movies")
    /\ UNCHANGED <<ret, _last_uploaded_watched_movies_lines,
                   _last_uploaded_watched_rating_by_key, current_recommendations,
                   _TOP250_MOVIES>>
    /\ ThreadsFrame

\* _last_uploaded_watched_movies.extend(parsed_movies)
UploadExtendMovies ==
    /\ UploadAt("extend_movies")
    /\ _last_uploaded_watched_movies' =
          _last_uploaded_watched_movies \o locals.upload.parsed_movies
    /\ UploadGoes("clear_ratings")
    /\ UNCHANGED <<ret, _last_uploaded_watched_movies_lines,
                   _last_uploaded_watched_rating_by_key, current_recommendations,
                   _TOP250_MOVIES>>
    /\ ThreadsFrame

\* _last_uploaded_watched_rating_by_key.clear()
UploadClearRatings ==
    /\ UploadAt("clear_ratings")
    /\ _last_uploaded_watched_rating_by_key' = EmptyDict
    /\ UploadGoes("set_rating")
    /\ UNCHANGED <<ret, _last_uploaded_watched_movies_lines, _last_uploaded_watched_movies,
                   current_recommendations, _TOP250_MOVIES>>
    /\ ThreadsFrame

\* one iteration of the loop that fills _last_uploaded_watched_rating_by_key
UploadSetRating ==
    /\ UploadAt("set_rating")
    /\ locals.upload.i <= Len(locals.upload.parsed_movies)
    /\ _last_uploaded_watched_rating_by_key' =
          RatingByKey(<<locals.upload.parsed_movies[locals.upload.i]>>,
                      _last_uploaded_watched_rating_by_key)
    /\ locals' = [locals EXCEPT !.upload.i = @ + 1]
    /\ UNCHANGED <<ret, _last_uploaded_watched_movies_lines, _last_uploaded_watched_movies,
                   current_recommendations, _TOP250_MOVIES>>
    /\ ThreadsFrame

\* current_recommendations.clear() and the 200 response of upload_csv
UploadFinish ==
    /\ UploadAt("set_rating")
    /\ locals.upload.i > Len(locals.upload.parsed_movies)
    /\ current_recommendations' = <<>>
    /\ ret' = [ret EXCEPT !.upload =
                  Some(Response(200, [message |-> "CSV uploaded and parsed successfully",
                                      rows |-> Len(locals.upload.parsed_movies),
                                      csv_uploaded |-> TRUE]))]
    /\ locals' = [locals EXCEPT
                     !.upload.pc = "responded",
                     !.committed = Some(UploadedState(locals.upload.parsed_movies,
                                                      locals.upload.watched_lines))]
    /\ UNCHANGED <<_last_uploaded_watched_movies_lines, _last_uploaded_watched_movies,
                   _last_uploaded_watched_rating_by_key, _TOP250_MOVIES>>
    /\ ThreadsFrame

\* the response of the upload is sent; the thread takes the next upload
UploadRespond ==
    /\ UploadAt("responded")
    /\ ret' = [ret EXCEPT !.upload = None]
    /\ locals' = [locals EXCEPT !.upload = IdleUpload]
    /\ UNCHANGED <<_last_uploaded_watched_movies_lines, _last_uploaded_watched_movies,
                   _last_uploaded_watched_rating_by_key, current_recommendations,
                   _TOP250_MOVIES>>
    /\ ThreadsFrame

\* the uploads whose complete state a request beginning now may work on: the
\* last that succeeded and the one that has passed its validation and is
\* being stored
UploadsInEffect ==
    (IF locals.committed = None THEN {} ELSE {locals.committed[1]})
    \cup
    (IF locals.upload.pc \in {"idle", "responded"} THEN {}
     ELSE {UploadedState(locals.upload.parsed_movies, locals.upload.watched_lines)})

\* api_get_recommendation_batch (a request without a body) up to its test of
\* _last_uploaded_watched_movies_lines
BatchTestLines ==
    /\ locals.batch.pc = "idle"
    /\ IF _last_uploaded_watched_movies_lines = <<>>
       THEN /\ ret' = [ret EXCEPT !.batch = Some(Response(400, [error |-> "No CSV uploaded yet."]))]
            /\ locals' = [locals EXCEPT !.batch.pc = "responded",
                                        !.batch.allowed = UploadsInEffect,
                                        !.batch.had_upload = locals.committed # None]
       ELSE /\ ret' = ret
            /\ locals' = [locals EXCEPT !.batch.pc = "watched_keys",
                                        !.batch.lines = _last_uploaded_watched_movies_lines,
                                        !.batch.allowed = UploadsInEffect,
                                        !.batch.had_upload = locals.committed # None]
    /\ UNCHANGED <<_last_uploaded_watched_movies_lines, _last_uploaded_watched_movies,
                   _last_uploaded_watched_rating_by_key, current_recommendations,
                   _TOP250_MOVIES>>
    /\ ThreadsFrame

\* the loop over _last_uploaded_watched_movies that builds watched_keys
BatchWatchedKeys ==
    /\ locals.batch.pc = "watched_keys"
    /\ locals' = [locals EXCEPT !.batch.pc = "recommend",
                                !.batch.movies = _last_uploaded_watched_movies]
    /\ UNCHANGED <<ret, _last_uploaded_watched_movies_lines, _last_uploaded_watched_movies,
                   _last_uploaded_watched_rating_by_key, current_recommendations,
                   _TOP250_MOVIES>>
    /\ ThreadsFrame

\* the regular branch on a server without the Gemini client: the call of
\* recommend_batch with the rating map as it is now, and the response
BatchRecommend ==
    /\ locals.batch.pc = "recommend"
    /\ \E top250 \in {IF _TOP250_MOVIES = None THEN LoadTop250(database) ELSE _TOP250_MOVIES[1]} :
       LET named == Named(locals.batch.movies)
           watched == {AppMovieKey(Strip(named[i].name), Strip(named[i].year)) :
                          i \in DOMAIN named}
       IN  \E watched_list \in Orderings(watched) :
           \E local \in {RecommendBatch(top250, watched_list, {}, <<>>,
                                         _last_uploaded_watched_rating_by_key, ModeRegular,
                                         RegularBatchSize, <<>>, <<>>)} :
              /\ ret' = [ret EXCEPT !.batch =
                            Some(Response(200, [movies |-> [i \in DOMAIN local |-> FixImage(local[i])],
                                                batch_size |-> RegularBatchSize,
                                                mode |-> ModeRegular]))]
              /\ _TOP250_MOVIES' = Some(top250)
              /\ locals' = [locals EXCEPT !.batch.pc = "responded",
                                          !.batch.ratings = _last_uploaded_watched_rating_by_key]
    /\ UNCHANGED <<_last_uploaded_watched_movies_lines, _last_uploaded_watched_movies,
                   _last_uploaded_watched_rating_by_key, current_recommendations>>
    /\ ThreadsFrame

\* the response of the batch is sent; the thread takes the next request
BatchRespond ==
    /\ locals.batch.pc = "responded"
    /\ ret' = [ret EXCEPT !.batch = None]
    /\ locals' = [locals EXCEPT !.batch = IdleBatch]
    /\ UNCHANGED <<_last_uploaded_watched_movies_lines, _last_uploaded_watched_movies,
                   _last_uploaded_watched_rating_by_key, current_recommendations,
                   _TOP250_MOVIES>>
    /\ ThreadsFrame

ThreadedNext ==
    \/ UploadReceive
    \/ UploadClearLines
    \/ UploadExtendLines
    \/ UploadClearMovies
    \/ UploadExtendMovies
    \/ UploadClearRatings
    \/ UploadSetRating
    \/ UploadFinish
    \/ UploadRespond
    \/ BatchTestLines
    \/ BatchWatchedKeys
    \/ BatchRecommend
    \/ BatchRespond

ThreadedSpec == ThreadedInit /\ [][ThreadedNext]_vars

-----------------------------------------------------------------------------
(* Claims about recommend_batch and analyze_user_history, checked under Spec *)

Returned == op = "recommend_batch"
Profiled == op = "analyze_user_history"

\* the key of a returned item
ResultKey(r) == MovieKey(r.title, r.year)

\* the catalog positions of the movies that are in none of the three sets
Eligible ==
    {i \in DOMAIN candidates :
        KeyOf(candidates[i]) \notin (watched_keys \cup exclude_keys \cup liked_keys_context)}

\* C1: no item returned by recommend_batch has a key in watched_keys, in
\* exclude_keys or in liked_keys_context, in regular and in super mode.
C1_Exclusion ==
    Returned =>
        \A i \in DOMAIN ret :
            /\ ResultKey(ret[i]) \notin watched_keys
            /\ ResultKey(ret[i]) \notin exclude_keys
            /\ ResultKey(ret[i]) \notin liked_keys_context

\* each of the three sets holds the key of a catalog movie, and a batch came back
C1_Witness ==
    /\ Returned
    /\ ret # <<>>
    /\ \E i, j, k \in DOMAIN candidates :
          /\ KeyOf(candidates[i]) \in watched_keys
          /\ KeyOf(candidates[j]) \in exclude_keys
          /\ KeyOf(candidates[k]) \in liked_keys_context

\* the batch size and the loosest threshold the claims speak of, written out
ClampedBatchSize == IF batch_size < 1 THEN 1 ELSE IF batch_size > 60 THEN 60 ELSE batch_size
LoosestThreshold == IF locals.mode = ModeRegular THEN 3000 ELSE 2500

\* the eligible candidates (positions in locals.scored) at or above a score
ScoringAtLeast(t) == {i \in DOMAIN locals.scored : locals.scored[i][2] >= t}

\* C2: recommend_batch returns exactly clamp(batchSize, 1, 60) items whenever
\* at least that many eligible candidates score at or above the loosest
\* threshold of the mode, even when fewer reach a tighter threshold.
C2_FilledWhenLoosestSuffices ==
    Returned =>
        (Cardinality(ScoringAtLeast(LoosestThreshold)) >= ClampedBatchSize
            => Len(ret) = ClampedBatchSize)

\* C3: the number of items returned is at most clamp(batchSize, 1, 60), so at
\* most 60 and at most 1 for batchSize <= 0, and at most the size of the
\* eligible pool.
C3_BatchSizeBound ==
    Returned =>
        /\ Len(ret) <= ClampedBatchSize
        /\ Len(ret) <= 60
        /\ (batch_size <= 0 => Len(ret) <= 1)
        /\ Len(ret) <= Cardinality(Eligible)

\* more eligible candidates than the largest batch, and a batch size above it
C3_Witness ==
    /\ Returned
    /\ batch_size > 60
    /\ Cardinality(Eligible) > 60
    /\ Len(ret) = 60

\* C4: a returned item has a non-empty why_it_fits only if the genre profile
\* gives a nonzero weight to at least one of the movie's genres.
C4_WhyOnlyForMatchedGenres ==
    Returned =>
        \A i \in DOMAIN ret :
            ret[i].why_it_fits # <<>> =>
                \E g \in Range(locals.selected[i][1].genres) :
                    DictGet(locals.profiles.genre, g, 0) # 0

\* one order in which list(a_set) may enumerate a set
SomeOrdering(S) == CHOOSE f \in Orderings(S) : TRUE

\* preferred-name lists a second call may pass: <<actors, directors>>
OtherPreferences ==
    { <<<<>>, <<>>>>, <<<<Tom>>, <<>>>>, <<<<>>, <<Kay>>>>, <<<<Ann, Tom>>, <<Dee, Kay>>>> }

\* C5: in regular mode two calls that differ only in preferredActors and
\* preferredDirectors return identical batches (items, order and scores).
C5_RegularIgnoresPreferences ==
    (Returned /\ locals.mode = ModeRegular) =>
        \A p \in OtherPreferences :
            RecommendBatch(candidates, SomeOrdering(watched_keys), exclude_keys,
                           SomeOrdering(liked_keys_context), watched_rating_by_key,
                           mode, batch_size, p[1], p[2]) = ret

\* a regular-mode batch holding a movie whose actor and director are preferred
C5_Witness ==
    /\ Returned
    /\ locals.mode = ModeRegular
    /\ \E i \in DOMAIN locals.selected :
          /\ \E a \in Range(preferred_actors) : Strip(a) \in Range(locals.selected[i][1].actors)
          /\ \E d \in Range(preferred_directors) :
                Strip(d) \in Range(locals.selected[i][1].directors)
    /\ Len(ret) >= 2

InUnitInterval(profile) == \A k \in DOMAIN profile : 0 <= profile[k] /\ profile[k] <= Unit

\* C7: every value of the three profiles returned by analyze_user_history lies
\* in [0.0, 1.0].
C7_NormalizationBound ==
    Profiled => InUnitInterval(ret.genre) /\ InUnitInterval(ret.actor) /\ InUnitInterval(ret.director)

\* two watched movies and a liked one, a preferred name, and weights strictly
\* inside the interval as well as at its upper end
C7_Witness ==
    /\ Profiled
    /\ Cardinality(watched_keys \cap DOMAIN IndexByKey(candidates)) >= 2
    /\ liked_keys_context \cap DOMAIN IndexByKey(candidates) # {}
    /\ preferred_actors # <<>>
    /\ \E g \in DOMAIN ret.genre : 0 < ret.genre[g] /\ ret.genre[g] < Unit
    /\ \E a, b \in DOMAIN ret.actor : ret.actor[a] < Unit /\ ret.actor[b] = Unit
    /\ \E d \in DOMAIN ret.director : ret.director[d] = Unit

\* how many entries of a list equal x
Occurrences(list, x) == Cardinality({i \in DOMAIN list : list[i] = x})

\* for the i-th entry of the working set (sorted by raw score): the number of
\* earlier entries having each of its genres, summed over its genres
EarlierSharing(i) ==
    LET w == locals.working IN
    SeqSum([n \in DOMAIN w[i][1].genres |->
               Cardinality({j \in 1..(i - 1) : w[i][1].genres[n] \in Range(w[j][1].genres)})])

\* what the i-th pick is selected as: the movie and its adjusted score
Pick(i) == <<locals.working[i][1], locals.working[i][2] - 300 * EarlierSharing(i)>>

NumPicked == Min(Len(locals.working), ClampedBatchSize)

\* C8: in super mode each picked item's adjusted score is its raw score minus
\* 0.03 times the number of earlier picks having each of its genres, summed
\* over its genres; N <= batchSize candidates of one shared genre are all
\* selected, the i-th (0-based) penalised by 0.03 * i; and the output is in
\* decreasing order of adjusted score.
C8_DiversityPenalty ==
    (Returned /\ locals.mode = ModeSuper) =>
        LET sel == locals.selected IN
        /\ Len(sel) = NumPicked
        /\ Len(ret) = NumPicked
        /\ \A i \in 1..NumPicked : Occurrences(sel, Pick(i)) = Occurrences([j \in 1..NumPicked |-> Pick(j)], Pick(i))
        /\ \A j \in DOMAIN ret :
              /\ ret[j].score = sel[j][2]
              /\ ret[j].title = sel[j][1].title
              /\ j > 1 => ret[j - 1].score >= ret[j].score
        /\ ( /\ Len(locals.working) <= ClampedBatchSize
             /\ \A i \in DOMAIN locals.working : locals.working[i][1].genres = <<"Drama">> )
           => /\ Len(ret) = Len(locals.working)
              /\ \A i \in DOMAIN locals.working :
                    Pick(i)[2] = locals.working[i][2] - 300 * (i - 1)

\* Scenario C: a full batch of picks that all share one genre
C8_Witness ==
    /\ Returned
    /\ locals.mode = ModeSuper
    /\ Len(ret) >= 20
    /\ Len(locals.working) <= ClampedBatchSize
    /\ \A i \in DOMAIN locals.working : locals.working[i][1].genres = <<"Drama">>

\* the position of a movie in the catalog
CatalogPos(m) == CHOOSE i \in DOMAIN candidates : candidates[i] = m

Degenerate ==
    /\ (watched_keys \cup liked_keys_context) \cap {KeyOf(candidates[i]) : i \in DOMAIN candidates} = {}
    /\ preferred_actors = <<>>
    /\ preferred_directors = <<>>

\* the rating and poster terms of a movie's score
RatingAndPoster(m) ==
    (IF m.imdb_rating = None THEN 0
     ELSE RoundDiv((Max(0, Min(m.imdb_rating[1], 100000)) - 80000) * 6, 100))
    + (IF StartsWith(m.poster_url, Http) THEN 1200 ELSE 0 - 1800)

\* C10: recommend_batch returns for every input; an empty eligible pool gives
\* an empty list, a pool smaller than batchSize gives fewer items, and when no
\* watched or liked key maps to the catalog and no names are preferred the
\* profiles are empty and a batch is still returned, scored by the rating and
\* poster terms alone.
C10_GracefulDegradation ==
    /\ Returned =>
          /\ Eligible = {} => ret = <<>>
          /\ Cardinality(Eligible) < ClampedBatchSize => Len(ret) < ClampedBatchSize
          /\ Degenerate =>
                /\ locals.profiles = [genre |-> EmptyDict, actor |-> EmptyDict, director |-> EmptyDict]
                /\ Eligible # {} => ret # <<>>
                /\ \A i \in DOMAIN locals.scored :
                      locals.scored[i][2] = RatingAndPoster(locals.scored[i][1])

\* a watch history that maps to nothing in the catalog, and a short batch
C10_Witness ==
    /\ Returned
    /\ Degenerate
    /\ watched_keys # {}
    /\ ret # <<>>
    /\ Len(ret) < ClampedBatchSize

-----------------------------------------------------------------------------
(* Claims about the request handlers of app.py, checked under AppSpec *)

\* /api/batch has answered a regular-mode request with a batch
RegularBatchAnswered ==
    /\ op = "api_get_recommendation_batch"
    /\ ret.status = 200
    /\ locals.mode = ModeRegular

\* the catalog positions of the movies the request leaves eligible
LocallyEligible ==
    {i \in DOMAIN _TOP250_MOVIES[1] :
        KeyOf(_TOP250_MOVIES[1][i]) \notin
            (locals.watched_keys \cup locals.exclude_keys \cup locals.liked_keys_context)}

\* C6: when the catalog holds at least as many eligible candidates as the
\* local recommender can return (60), a regular-mode /api/batch response is
\* the local recommender's batch alone and the Gemini oracle is not queried.
C6_LocalOnlyWhenPoolSuffices ==
    (RegularBatchAnswered /\ Cardinality(LocallyEligible) >= MaxBatch) =>
        /\ oracle_calls = <<>>
        /\ Len(ret.body.movies) = Len(locals.movies)

-----------------------------------------------------------------------------
(* Claims about the frame of the two entry points, checked under Spec *)

\* C11: a call of recommend_batch or of analyze_user_history leaves every
\* argument as it was (the catalog list and its order, the three key sets,
\* the rating map, the preferred-name lists) and writes no global.
C11_Purity ==
    [][op' \in {"recommend_batch", "analyze_user_history"} =>
          /\ op = "none"
          /\ UNCHANGED callVars
          /\ UNCHANGED appVars]_vars

\* a batch came back from a catalog that holds a watched movie and an
\* unwatched one, with a rated history and preferred names
C11_Witness ==
    /\ Returned
    /\ ret # <<>>
    /\ Len(locals.pool) < Len(candidates)
    /\ \E k \in watched_keys : watched_rating_by_key[k] # None
    /\ preferred_actors # <<>>

-----------------------------------------------------------------------------
(* Claims about analyze_user_history, checked under ProfileSpec *)

\* the catalog index the call works on, and the keys of each list it holds
ProfileIndex == IndexByKey(candidates)
WatchedPresent == watched_keys \cap DOMAIN ProfileIndex
LikedPresent == liked_keys_context \cap DOMAIN ProfileIndex
WeightOf(k) == RatingWeight(DictGet(watched_rating_by_key, k, None))

\* the raw genre scores that are positive
PositiveGenres == {g \in DOMAIN locals.genre : locals.genre[g] > 0}

\* C12: the largest genre weight returned is 0.75 + 0.25 * concentration,
\* concentration being 1 minus the normalised entropy of the raw genre
\* scores; raw scores on a single genre give that genre weight 1.0; raw
\* scores equal over two or more genres give each of them weight 0.75 (to
\* the last digit of the four-decimal numbers: 1/3 is 0.3333 here, which
\* leaves a concentration of 0.0003 for three equal genres).
C12_EntropyEdgeCases ==
    (Profiled /\ DOMAIN ret.genre # {}) =>
        /\ SetMax({ret.genre[g] : g \in DOMAIN ret.genre})
              = 7500 + MulFx(2500, Unit - EntropyNorm(locals.genre))
        /\ Cardinality(PositiveGenres) = 1 =>
              \A g \in PositiveGenres : ret.genre[g] = Unit
        /\ (/\ Cardinality(PositiveGenres) >= 2
            /\ \A g, h \in PositiveGenres : locals.genre[g] = locals.genre[h]) =>
              \A g \in PositiveGenres : ret.genre[g] \in {7500, 7501}

\* profiles were returned for a single-genre history
C12_SingleGenreReached ==
    /\ Profiled
    /\ Cardinality(PositiveGenres) = 1
    /\ Cardinality(watched_keys) = 2

\* profiles were returned for raw scores equal over two genres that come
\* from two movies, and over three genres of one movie
C12_Witness ==
    /\ Profiled
    /\ \A g, h \in PositiveGenres : locals.genre[g] = locals.genre[h]
    /\ \/ Cardinality(PositiveGenres) = 3
       \/ Cardinality(PositiveGenres) = 2 /\ Cardinality(WatchedPresent) = 2

\* what the present watched and liked movies add to name x, names(m) being
\* the names of movie m that count, per_rating the share of the rating
\* weight a watched movie adds and per_like what a liked movie adds
ExpectedRaw(names(_), x, per_rating, per_like) ==
    SumOver([k \in WatchedPresent |->
                MulFx(WeightOf(k), per_rating) * Occurrences(names(ProfileIndex[k]), x)],
            WatchedPresent)
    + SumOver([k \in LikedPresent |-> per_like * Occurrences(names(ProfileIndex[k]), x)],
              LikedPresent)

GenresOf(m) == m.genres
FirstActors(m) == Take(m.actors, 6)
FirstDirectors(m) == Take(m.directors, 2)
NamesIn(names(_)) == UNION {Range(names(ProfileIndex[k])) : k \in WatchedPresent \cup LikedPresent}

\* C14: the raw profiles hold exactly the genres, the first 6 actors and
\* the first 2 directors of the watched and liked movies that are in the
\* catalog index; a watched movie with rating weight w adds w per genre,
\* 0.5 w per actor and 0.9 w per director, a liked movie adds 0.8, 0.5 and
\* 0.9 whatever its rating; a key absent from the index adds nothing.
C14_ProfileAccumulation ==
    Profiled =>
        /\ DOMAIN locals.genre = NamesIn(GenresOf)
        /\ DOMAIN locals.actor = NamesIn(FirstActors)
        /\ DOMAIN locals.director = NamesIn(FirstDirectors)
        /\ \A g \in DOMAIN locals.genre :
              locals.genre[g] = ExpectedRaw(GenresOf, g, Unit, 8000)
        /\ \A a \in DOMAIN locals.actor :
              locals.actor[a] = ExpectedRaw(FirstActors, a, 5000, 5000)
        /\ \A d \in DOMAIN locals.director :
              locals.director[d] = ExpectedRaw(FirstDirectors, d, 9000, 9000)

\* the movie with 7 actors and 3 directors was watched with a rating and
\* another movie liked that is rated in the history, next to a key the
\* catalog lacks; the 7th actor and the 3rd director got no score
C14_Witness ==
    /\ Profiled
    /\ KeyOf(WideMovie) \in WatchedPresent
    /\ watched_rating_by_key[KeyOf(WideMovie)] # None
    /\ LikedPresent # {}
    /\ LikedPresent \subseteq watched_keys
    /\ ProfileIndex[KeyOf(WideMovie)] = WideMovie
    /\ WideMovie.actors[7] \notin DOMAIN locals.actor
    /\ WideMovie.directors[3] \notin DOMAIN locals.director
    /\ \E k \in watched_keys : k \notin DOMAIN ProfileIndex

\* the non-empty stripped names of a preferred list
PreferredNames(preferred) ==
    {Strip(preferred[i]) : i \in DOMAIN preferred} \ {<<>>}

\* the profiles of the same call without preferred names
WithoutPreferences ==
    AnalyzeUserHistory(SomeOrdering(watched_keys), watched_rating_by_key, ProfileIndex,
                       SomeOrdering(liked_keys_context), <<>>, <<>>)

\* C16: every non-empty stripped name of preferred_actors has weight 1.0
\* in the actor profile returned, and every one of preferred_directors in
\* the director profile, whether or not the history gave the name a weight;
\* the genre profile is the one the call returns without the two lists.
C16_ExplicitOverrides ==
    Profiled =>
        /\ \A a \in PreferredNames(preferred_actors) :
              a \in DOMAIN ret.actor /\ ret.actor[a] = Unit
        /\ \A d \in PreferredNames(preferred_directors) :
              d \in DOMAIN ret.director /\ ret.director[d] = Unit
        /\ ret.genre = WithoutPreferences.genre

\* a preferred actor the history weighted below 1.0, next to a blank name
C16_Witness ==
    /\ Profiled
    /\ \E a \in PreferredNames(preferred_actors) :
          /\ a \in DOMAIN WithoutPreferences.actor
          /\ WithoutPreferences.actor[a] < Unit
    /\ \E i \in DOMAIN preferred_actors : Strip(preferred_actors[i]) = <<>>
    /\ preferred_directors # <<>>

\* a preferred name that no watched or liked movie has
C16_UnknownNameReached ==
    /\ Profiled
    /\ DOMAIN locals.actor # {}
    /\ \E a \in PreferredNames(preferred_actors) : a \notin DOMAIN locals.actor
    /\ \E d \in PreferredNames(preferred_directors) : d \notin DOMAIN locals.director

-----------------------------------------------------------------------------
(* Claims about score_movie, checked under ScoreSpec *)

Scored == op = "score_movie"

\* sum(xs) / len(xs) over the weights of the names, 0.0 for no names
Mean(profile, names) ==
    IF names = <<>> THEN 0
    ELSE RoundDiv(SeqSum([i \in DOMAIN names |->
                             IF names[i] \in DOMAIN profile THEN profile[names[i]] ELSE 0]),
                  Len(names))

\* the three scores of the movie held in locals; the actor and director
\* scores are 0.0 outside super mode
GenreScore == Mean(locals.genre_profile, locals.movie.genres)
ActorScore ==
    IF mode = ModeSuper THEN Mean(locals.actor_profile, Take(locals.movie.actors, 8)) ELSE 0
DirectorScore ==
    IF mode = ModeSuper THEN Mean(locals.director_profile, Take(locals.movie.directors, 2)) ELSE 0

RatingTerm ==
    IF locals.movie.imdb_rating = None THEN 0
    ELSE RoundDiv((Max(0, Min(locals.movie.imdb_rating[1], 10 * Unit)) - 8 * Unit) * 6, 100)

PosterTerm ==
    IF locals.movie.poster_url # <<>> /\ StartsWith(locals.movie.poster_url, Http)
    THEN 1200 ELSE 0 - 1800

\* Scenario A: the genre profile of the history {a::1 rated 5.0} on the
\* catalog "A" (Drama, 9.0, poster), "B" (Comedy, 5.0, no poster)
ScenarioA ==
    AnalyzeUserHistory(<<MovieKey(<<"a">>, <<"1">>)>>,
                       [k \in {MovieKey(<<"a">>, <<"1">>)} |-> Some(50000)],
                       IndexByKey(<<BaseCatalog[1], BaseCatalog[4]>>), <<>>, <<>>, <<>>)

\* C13: score_movie returns 0.78 genreScore + 0.12 actorScore + 0.10
\* directorScore, plus (clamp(rating, 0, 10) - 8.0) * 0.06 for a rated
\* movie, plus 0.12 for a poster starting with http and minus 0.18
\* otherwise, unclamped; the genre profile of Scenario A is {Drama: 1.0},
\* and with it "B" scores -0.36 in regular mode and "A" scores higher.
C13_ScorerFormula ==
    /\ ScenarioA.genre = [g \in {"Drama"} |-> Unit]
    /\ Scored =>
          /\ ret = RoundDiv(78 * GenreScore + 12 * ActorScore + 10 * DirectorScore, 100)
                      + RatingTerm + PosterTerm
          /\ (mode = ModeRegular /\ locals.genre_profile = ScenarioA.genre) =>
                /\ locals.movie = BaseCatalog[4] => ret = 0 - 3600
                /\ locals.movie = BaseCatalog[1] => ret > 0 - 3600

\* "B" was scored in regular mode with the genre profile of Scenario A
C13_Witness ==
    /\ Scored
    /\ mode = ModeRegular
    /\ locals.genre_profile = ScenarioA.genre
    /\ locals.movie = BaseCatalog[4]
    /\ ret = 0 - 3600

\* a score above 1.0, and a super-mode score of a movie whose ninth actor
\* and third director are the only ones with a weight
C13_UnclampedReached ==
    /\ Scored
    /\ \/ ret > Unit
       \/ /\ mode = ModeSuper
          /\ locals.movie = CrowdedMovie
          /\ Tom \in DOMAIN locals.actor_profile
          /\ Ann \notin DOMAIN locals.actor_profile

-----------------------------------------------------------------------------
(* Claims about rating_weight, checked under RatingSpec *)

Weighed == op = "rating_weight"

\* C15: rating_weight returns 1.0 for no rating, 0.75 + clamp(r, 0, 5) / 5
\* * 0.60 for r <= 5.0 and 0.75 + clamp(r, 0, 10) / 10 * 0.60 for r > 5.0;
\* the weight of every rating, negative and above 10 included, is within
\* [0.75, 1.35].
C15_RatingWeight ==
    Weighed =>
        /\ locals = None => ret = Unit
        /\ locals # None =>
              /\ locals[1] < 0 => ret = 7500
              /\ (0 <= locals[1] /\ locals[1] <= 5 * Unit) =>
                    ret = 7500 + RoundDiv(locals[1] * 12, 100)
              /\ (5 * Unit < locals[1] /\ locals[1] <= 10 * Unit) =>
                    ret = 7500 + RoundDiv(locals[1] * 6, 100)
              /\ locals[1] > 10 * Unit => ret = 13500
        /\ 7500 <= ret /\ ret <= 13500

\* a negative rating was weighed
C15_Witness ==
    /\ Weighed
    /\ locals # None
    /\ locals[1] < 0
    /\ ret = 7500

\* a rating above 10 and a rating just above 5.0 were weighed
C15_AboveTenReached == Weighed /\ locals # None /\ locals[1] > 10 * Unit /\ ret = 13500
C15_ScaleSwitchReached == Weighed /\ locals = Some(51000) /\ ret = 10560

-----------------------------------------------------------------------------
(* Claims about load_top250, checked under LoaderSpec *)

Loaded == op = "load_top250"

\* the rating an entry is sorted by: a missing rating counts as 0.0
SortRating(m) == IF m.imdb_rating = None THEN 0 ELSE m.imdb_rating[1]

AsciiTitle(title) == title # <<>> /\ \A i \in DOMAIN title : title[i] # NonAsciiChar

\* http://... or https://...
AbsoluteHttpUrl(url) ==
    \/ StartsWith(url, <<"h", "t", "t", "p", ":", "/", "/">>)
    \/ StartsWith(url, <<"h", "t", "t", "p", "s", ":", "/", "/">>)

\* the entries of the database that pass the title and the poster test,
\* by position
Kept ==
    {i \in DOMAIN database :
        /\ AsciiTitle(Strip(database[i].title))
        /\ StartsWith(Strip(database[i].poster_url), Http)}

\* at most TopN entries, in non-increasing rating, and every kept entry
\* rated above the lowest returned one is returned
RankedAndCut ==
    /\ Len(ret) = Min(Cardinality(Kept), TopN)
    /\ \A i, j \in DOMAIN ret : i < j => SortRating(ret[i]) >= SortRating(ret[j])
    /\ \A k \in Kept :
          (\E i \in DOMAIN ret : SortRating(database[k]) > SortRating(ret[i])) =>
             \E i \in DOMAIN ret :
                /\ ret[i].title = Strip(database[k].title)
                /\ ret[i].imdb_rating = database[k].imdb_rating

\* C17 as stated: every movie load_top250 returns has a non-empty
\* ASCII-only title and a poster URL that is an absolute HTTP(S) URL; the
\* result has at most 100 entries in descending rating (missing as 0.0),
\* and no entry cut off has a higher rating than one returned.
C17_LoaderAbsoluteUrl ==
    Loaded =>
        /\ \A i \in DOMAIN ret : AsciiTitle(ret[i].title) /\ AbsoluteHttpUrl(ret[i].poster_url)
        /\ RankedAndCut

\* C17 as amended: every movie load_top250 returns has a non-empty
\* ASCII-only title and a poster URL that starts with "http"; the result
\* has at most 100 entries in descending rating (missing as 0.0), and no
\* entry cut off has a higher rating than one returned.
C17_Loader ==
    Loaded =>
        /\ \A i \in DOMAIN ret : AsciiTitle(ret[i].title) /\ StartsWith(ret[i].poster_url, Http)
        /\ RankedAndCut

\* a list of which more than TopN entries pass the filters was loaded, and
\* an entry among its first TopN was cut off, rated below one returned
C17_Witness ==
    /\ Loaded
    /\ Cardinality(Kept) > TopN
    /\ Len(ret) = TopN
    /\ Cardinality(Kept) < Len(database)
    /\ \E k \in Kept :
          /\ k < TopN
          /\ \A i \in DOMAIN ret : ret[i].title # Strip(database[k].title)
          /\ SortRating(database[k]) < SortRating(ret[1])

\* a short list with a padded title, a dropped entry and an unrated movie
\* sorted with the one rated 0.0 was loaded
C17_FilteredReached ==
    /\ Loaded
    /\ Len(ret) < Len(database)
    /\ \E i \in DOMAIN ret : ret[i].title = <<"C">> /\ ret[i].poster_url = HttpsUrl
    /\ \E i, j \in DOMAIN ret :
          i < j /\ ret[i].imdb_rating = None /\ ret[j].imdb_rating = Some(0)

-----------------------------------------------------------------------------
(* The two _movie_key functions called on two title and year pairs *)

\* letter case and padding vary; some titles and years hold colons
KeyTitles ==
    { <<"a">>, <<"A">>, <<" ", "A", " ">>, <<"a", " ", "b">>, <<"A", " ", "B">>, <<"b">>,
      <<>>, <<" ">>, <<"a", ":">>, <<"a", ":", ":", "1">> }
KeyYears ==
    { <<"1">>, <<" ", "1", " ">>, <<"2">>, <<>>, <<":", "1">>, <<":", ":", "1">> }

KeyInit ==
    /\ \E t1 \in KeyTitles, t2 \in KeyTitles, y1 \in KeyYears, y2 \in KeyYears :
          locals = [title |-> t1, year |-> y1, other_title |-> t2, other_year |-> y2]
    /\ candidates = <<>>
    /\ watched_keys = {}
    /\ watched_rating_by_key = EmptyDict
    /\ exclude_keys = {}
    /\ liked_keys_context = {}
    /\ mode = ModeRegular
    /\ batch_size = 1
    /\ preferred_actors = <<>>
    /\ preferred_directors = <<>>
    /\ op = "none"
    /\ ret = <<>>
    /\ Constructed
    /\ gemini_imported = FALSE
    /\ TMDB_API_KEY = FALSE
    /\ database = <<>>

\* recommender._movie_key on each of the two pairs
CallMovieKey ==
    /\ op = "none"
    /\ ret' = <<MovieKey(locals.title, locals.year),
                MovieKey(locals.other_title, locals.other_year)>>
    /\ op' = "recommender._movie_key"
    /\ UNCHANGED <<callVars, locals, appVars>>

\* app._movie_key on each of the two pairs
CallAppMovieKey ==
    /\ op = "none"
    /\ ret' = <<AppMovieKey(locals.title, locals.year),
                AppMovieKey(locals.other_title, locals.other_year)>>
    /\ op' = "app._movie_key"
    /\ UNCHANGED <<callVars, locals, appVars>>

KeyNext == CallMovieKey \/ CallAppMovieKey

KeySpec == KeyInit /\ [][KeyNext]_vars

-----------------------------------------------------------------------------
(* Claims about _movie_key, checked under KeySpec *)

Keyed == op \in {"recommender._movie_key", "app._movie_key"}

\* the two pairs have the same title up to letter case and padding and the
\* same year up to padding
SameMovie ==
    /\ Lower(Strip(locals.title)) = Lower(Strip(locals.other_title))
    /\ Strip(locals.year) = Strip(locals.other_year)

\* the half of C18 that holds: pairs that differ in letter case and
\* padding only have the same key
KeyInvariance == (Keyed /\ SameMovie) => ret[1] = ret[2]

\* C18: the key of a title and a year does not change with the letter
\* case or the padding of the title or with the padding of the year, and
\* two keys are equal only if the normalized titles are equal and the
\* trimmed years are equal.
C18_KeySymmetry ==
    Keyed => (ret[1] = ret[2] <=> SameMovie)

-----------------------------------------------------------------------------
(* Claims about the watchlist and the uploaded history, checked under      *)
(* SessionSpec                                                             *)

\* a title of the watchlist after trimming and lowercasing
ListedTitle(i) == Lower(Strip(watchlist_movies[i].title))

NoTitleTwice ==
    \A i, j \in DOMAIN watchlist_movies : i # j => ListedTitle(i) # ListedTitle(j)

\* C19: after any sequence of /api/click, /api/like and
\* /api/watchlist/remove requests no two entries of the watchlist have
\* titles that are equal after trimming and lowercasing, and a click or
\* like of a title the watchlist already holds leaves the watchlist as it
\* was.
C19_WatchlistUniqueness ==
    /\ []NoTitleTwice
    /\ [][(/\ op' \in {"api_click_movie", "api_like_movie"}
           /\ ret'.status = 200
           /\ \E i \in DOMAIN watchlist_movies : ListedTitle(i) = Lower(locals'.title))
              => watchlist_movies' = watchlist_movies]_vars

\* a click of "d" was answered while the watchlist held "D", after an
\* entry had been removed
C19_Witness ==
    /\ op = "api_click_movie"
    /\ ret.status = 200
    /\ Len(watchlist_movies) = 1
    /\ total_movie_click_count = MaxClicks
    /\ ListedTitle(1) = Lower(locals.title)
    /\ watchlist_movies[1].title # locals.title

BatchAnswered == op = "api_get_recommendation_batch"
NoCsvError == ret = Response(400, [error |-> "No CSV uploaded yet."])
InvalidBody == ret = Response(400, [error |-> "Invalid JSON body"])
UploadSucceeded == op = "upload_csv" /\ ret.status = 200

\* an upload has succeeded: only a successful upload writes the lines, it
\* writes at least one, and nothing empties them (UploadedForGood)
Uploaded == _last_uploaded_watched_movies_lines # <<>>

UploadedForGood ==
    [][/\ UploadSucceeded' => Uploaded'
       /\ (~Uploaded /\ Uploaded') => UploadSucceeded'
       /\ Uploaded => Uploaded']_vars

\* C20 as stated: every /api/batch request is answered 400 "No CSV
\* uploaded yet." while no /upload has succeeded, and none is after the
\* first successful /upload.
C20_NoCsvUntilUpload ==
    BatchAnswered => (NoCsvError <=> ~Uploaded)

\* C20 as amended: while no /upload has succeeded every /api/batch request
\* is answered 400, with "No CSV uploaded yet." or, for a body that is no
\* JSON object, with "Invalid JSON body"; after the first successful
\* /upload no /api/batch request is answered "No CSV uploaded yet.",
\* whatever uploads, likes, clicks and removals come in between.
C20_UploadBeforeBatch ==
    /\ UploadedForGood
    /\ [](BatchAnswered =>
            /\ ~Uploaded => NoCsvError \/ InvalidBody
            /\ Uploaded => ~NoCsvError)

\* a batch was served after an upload and two clicks or likes, one of them
\* since removed from the watchlist
C20_Witness ==
    /\ BatchAnswered
    /\ ret.status = 200
    /\ Uploaded
    /\ total_movie_click_count = MaxClicks
    /\ Len(watchlist_movies) < MaxClicks

-----------------------------------------------------------------------------
(* Claims about the working set and the selection of recommend_batch:     *)
(* the threshold relaxation and the keys under Spec, the order and the     *)
(* super-mode membership under SelectSpec                                  *)

\* the thresholds of the mode the batch ran in, and those of them that at
\* least one eligible candidate reaches
ModeThresholds == IF locals.mode = ModeRegular THEN {3000, 5000, 6000} ELSE {2500, 3000, 3500}
ReachedThresholds == {t \in ModeThresholds : ScoringAtLeast(t) # {}}

\* the positions in locals.scored the claim says the working set holds
KeptByThresholds ==
    IF ReachedThresholds = {} THEN DOMAIN locals.scored
    ELSE ScoringAtLeast(SetMax(ReachedThresholds))

\* C21: after the threshold loop the working set holds exactly the
\* eligible candidates scoring at or above the largest threshold of the
\* mode that some eligible candidate reaches, also when they are fewer than
\* the batch size, and the whole eligible pool when none reaches the
\* loosest threshold; so the batch is non-empty whenever the pool is.
C21_ThresholdRelaxation ==
    Returned =>
        /\ Len(locals.working) = Cardinality(KeptByThresholds)
        /\ \A i \in KeptByThresholds :
              Occurrences(locals.working, locals.scored[i])
                = Cardinality({j \in KeptByThresholds : locals.scored[j] = locals.scored[i]})
        /\ locals.pool # <<>> => ret # <<>>

\* the filter adopted holds fewer movies than the batch asks for although
\* a looser one would fill it
C21_Witness ==
    /\ Returned
    /\ Len(locals.working) < locals.batch_size
    /\ Cardinality(ScoringAtLeast(LoosestThreshold)) >= locals.batch_size
    /\ Len(locals.working) < Len(locals.scored)

\* no eligible candidate reaches the loosest threshold and the pool is kept
C21_WholePoolReached ==
    /\ Returned
    /\ ReachedThresholds = {}
    /\ Len(locals.working) >= 2

\* the raw score score_movie gave the movie of a returned item
RawScore(r) ==
    LET i == CHOOSE i \in DOMAIN locals.scored :
                 /\ locals.scored[i][1].title = r.title
                 /\ locals.scored[i][1].year = r.year
    IN  locals.scored[i][2]

\* C22: the list recommend_batch returns is non-increasing in the score
\* it reports, which is the raw score in regular mode and the score less
\* the diversity penalty in super mode.
C22_OutputOrder ==
    Returned =>
        /\ \A i, j \in DOMAIN ret : i < j => ret[i].score >= ret[j].score
        /\ \A i \in DOMAIN ret :
              /\ locals.mode = ModeRegular => ret[i].score = RawScore(ret[i])
              /\ locals.mode = ModeSuper =>
                    /\ ret[i].score = locals.selected[i][2]
                    /\ ret[i].score <= RawScore(ret[i])

\* a super-mode batch in which a movie of lower raw score stands ahead of
\* one of higher raw score
C22_Witness ==
    /\ Returned
    /\ locals.mode = ModeSuper
    /\ \E i, j \in DOMAIN ret : i < j /\ RawScore(ret[i]) < RawScore(ret[j])

\* a regular-mode batch of several movies with different scores
C22_RegularReached ==
    /\ Returned
    /\ locals.mode = ModeRegular
    /\ Len(ret) >= 2
    /\ ret[1].score > ret[Len(ret)].score

\* C24: no two items returned by one call of recommend_batch have the same
\* movie key, also when the catalog holds several entries with one key.
C24_NoDuplicateKeys ==
    Returned =>
        \A i, j \in DOMAIN ret : i # j => ResultKey(ret[i]) # ResultKey(ret[j])

\* how many movies the selection takes from the working set
NumSelected == Min(ClampedBatchSize, Len(locals.working))

\* the titles of the first NumSelected movies of the working set, which
\* locals.working holds sorted by raw score
FirstByRawScore == {locals.working[i][1].title : i \in 1..NumSelected}

\* C23: in super mode the movies returned are exactly the first
\* min(batchSize, size of the working set) movies of the working set in
\* descending raw score; the diversity penalty changes the scores reported
\* and the order, never which movies are returned.
C23_SuperMembership ==
    (Returned /\ locals.mode = ModeSuper) =>
        /\ \A i, j \in DOMAIN locals.working :
              i < j => locals.working[i][2] >= locals.working[j][2]
        /\ Len(ret) = NumSelected
        /\ {ret[j].title : j \in DOMAIN ret} = FirstByRawScore
        /\ \A j \in DOMAIN ret : \A k \in DOMAIN locals.working :
              locals.working[k][1].title \notin FirstByRawScore =>
                 RawScore(ret[j]) >= locals.working[k][2]

\* a super-mode batch smaller than the working set that holds a movie
\* whose reported score is below the raw score of a movie left out
C23_Witness ==
    /\ Returned
    /\ locals.mode = ModeSuper
    /\ Len(ret) < Len(locals.working)
    /\ Len(ret) >= 2
    /\ \E j \in DOMAIN ret : \E k \in DOMAIN locals.working :
          /\ locals.working[k][1].title \notin FirstByRawScore
          /\ ret[j].score < locals.working[k][2]

-----------------------------------------------------------------------------
(* Claims about the answers of /api/batch to the oracle's picks, checked   *)
(* under AppSpec                                                           *)

\* a /api/batch request has been answered with a list of movies
BatchMovies == op = "api_get_recommendation_batch" /\ ret.status = 200

\* C25: whatever list the oracle returns, the movies of a /api/batch
\* response never include two entries with the same movie key, in super
\* mode and in regular mode.
C25_NoDuplicateResponseKeys ==
    BatchMovies =>
        \A i, j \in DOMAIN ret.body.movies :
            i # j => AppMovieKey(ret.body.movies[i].title, ret.body.movies[i].year)
                       # AppMovieKey(ret.body.movies[j].title, ret.body.movies[j].year)

\* a regular response in which two of the picks appended from the oracle's
\* list have one key
C25_OraclePickTwiceReached ==
    /\ BatchMovies
    /\ locals.mode = ModeRegular
    /\ \E i, j \in DOMAIN ret.body.movies :
          /\ Len(locals.movies) < i
          /\ i < j
          /\ AppMovieKey(ret.body.movies[i].title, ret.body.movies[i].year)
               = AppMovieKey(ret.body.movies[j].title, ret.body.movies[j].year)

-----------------------------------------------------------------------------
(* Claims about the click counter, the failed uploads and the removal,     *)
(* checked under SessionSpec                                               *)

\* the request just answered is a click or a like answered with success
CountedRequest == op' \in {"api_click_movie", "api_like_movie"} /\ ret'.status = 200

\* C26: the click counter starts at 0, every /api/click and /api/like
\* answered with success adds exactly 1 to it (also when the movie was already
\* in the watchlist) and reports the new value, every other step (a request
\* rejected with 400, a removal, any other request) leaves it unchanged, so
\* it never decreases; /api/click-count reports it, and the watchlist never
\* has more entries than the counter.
C26_ClickCounter ==
    /\ total_movie_click_count = 0
    /\ [](Len(watchlist_movies) <= total_movie_click_count)
    /\ [](op = "api_get_click_count" => ret.body.count = total_movie_click_count)
    /\ [][IF CountedRequest
           THEN /\ total_movie_click_count' = total_movie_click_count + 1
                /\ ret'.body.total_clicks = total_movie_click_count'
           ELSE total_movie_click_count' = total_movie_click_count]_vars

\* a like counted although the watchlist did not grow by it: the counter is
\* ahead of the watchlist after a like of a movie already listed
C26_Witness ==
    /\ op = "api_like_movie"
    /\ ret.status = 200
    /\ ret.body.total_clicks = MaxClicks
    /\ total_movie_click_count = MaxClicks
    /\ Len(watchlist_movies) = 1

\* the counter read back after a removal has emptied the watchlist
C26_CountAfterRemovalReached ==
    /\ op = "api_get_click_count"
    /\ ret.body.count > 0
    /\ watchlist_movies = <<>>

\* an /upload request has just been answered with an error
UploadRejected == op' = "upload_csv" /\ ret'.status # 200

\* C27: an /upload request rejected with an error changes none of the stored
\* watch-history lines, the structured watch list, the rating map and the
\* current recommendations, so the previous successful upload stays in effect.
C27_FailedUploadFrame ==
    [][UploadRejected =>
          UNCHANGED <<_last_uploaded_watched_movies_lines, _last_uploaded_watched_movies,
                      _last_uploaded_watched_rating_by_key,
                      current_recommendations>>]_vars

\* a CSV with rows but no title, rejected while an earlier upload is stored
C27_Witness ==
    /\ op = "upload_csv"
    /\ ret.status = 400
    /\ ret.body.error = "No movie titles found in CSV"
    /\ _last_uploaded_watched_movies_lines # <<>>
    /\ _last_uploaded_watched_movies # <<>>

\* an unparseable file rejected with 500 while an earlier upload is stored
C27_ParseErrorReached ==
    /\ op = "upload_csv"
    /\ ret.status = 500
    /\ _last_uploaded_watched_movies_lines # <<>>

\* a /api/watchlist/remove request has just been answered
RemoveAnswered == op' = "api_remove_watchlist_item"

\* the watchlist entry m is one the key of the request names: its normalized
\* title is the key's title part (trimmed and lowercased, as the handler
\* reads it) and, when the key carries a year, its year is that year
NamedByKey(m) ==
    /\ Lower(Strip(m.title)) = locals'.normalized_title
    /\ locals'.year_part # <<>> => Strip(m.year) = locals'.year_part

\* the watchlist after the step is the one before it without its entry i
WithoutEntry(i) ==
    /\ Len(watchlist_movies') = Len(watchlist_movies) - 1
    /\ \A k \in DOMAIN watchlist_movies' :
          watchlist_movies'[k] = watchlist_movies[IF k < i THEN k ELSE k + 1]

\* C28: a /api/watchlist/remove request removes at most one watchlist entry,
\* one the key names by title and, when the key carries a year, by year; it
\* leaves the other entries, their order and the click counter unchanged,
\* reports removed = true exactly when an entry was removed, and changes
\* nothing when it is rejected (no key, or a key with an empty title).
C28_RemovalFrame ==
    [][RemoveAnswered =>
          /\ total_movie_click_count' = total_movie_click_count
          /\ ret'.status \in {200, 400}
          /\ ret'.status = 400 => watchlist_movies' = watchlist_movies
          /\ ret'.status = 200 =>
                /\ \/ watchlist_movies' = watchlist_movies
                   \/ \E i \in DOMAIN watchlist_movies :
                         NamedByKey(watchlist_movies[i]) /\ WithoutEntry(i)
                /\ ret'.body.removed = (watchlist_movies' # watchlist_movies)
                /\ ret'.body.watchlist_size = Len(watchlist_movies')]_vars

\* an entry removed by title and year while another entry stays
C28_Witness ==
    /\ op = "api_remove_watchlist_item"
    /\ ret.status = 200
    /\ ret.body.removed
    /\ locals.year_part # <<>>
    /\ Len(watchlist_movies) = 1

\* nothing removed although an entry has the title of the key: its year is
\* not the year of the key
C28_YearMismatchReached ==
    /\ op = "api_remove_watchlist_item"
    /\ ret.status = 200
    /\ ~ret.body.removed
    /\ \E i \in DOMAIN watchlist_movies :
          Lower(Strip(watchlist_movies[i].title)) = locals.normalized_title

\* a key without a title rejected while the watchlist holds entries
C28_RejectedReached ==
    /\ op = "api_remove_watchlist_item"
    /\ ret.status = 400
    /\ ret.body.error = "Invalid key"
    /\ watchlist_movies # <<>>

-----------------------------------------------------------------------------
(* Claims about the queries of ask_super_recommendations, checked under    *)
(* AppSpec                                                                 *)

\* a /api/batch request in super mode has been answered by a server that
\* has the Gemini client
SuperAnswered ==
    /\ op = "api_get_recommendation_batch"
    /\ locals # <<>>
    /\ locals.mode = ModeSuper
    /\ gemini_imported

\* the model's reply raised or could not be parsed as JSON
Unusable(reply) == reply.kind \in {"error", "text"}

\* the titles of the movies a reply lists, trimmed
ReplyTitles(reply) == {Strip(reply.movies[i].title) : i \in DOMAIN reply.movies}

\* C29: one call of ask_super_recommendations queries the model at most
\* twice; the first query carries no reminder; a second query is made exactly
\* when the first reply raised or was unparseable, and it is the first query
\* with the JSON-only reminder; the answer is built from the reply to the last
\* query made, and when that reply is unusable too the error propagates:
\* /api/batch answers 502 and returns no movies.
C29_RetryProtocol ==
    SuperAnswered =>
        LET calls == oracle_calls
            last == calls[Len(calls)].reply
        IN  /\ Len(calls) \in {1, 2}
            /\ ~calls[1].reminder
            /\ Len(calls) = 2 <=> Unusable(calls[1].reply)
            /\ Len(calls) = 2 =>
                  /\ calls[2].reminder
                  /\ [calls[2] EXCEPT !.reminder = FALSE, !.reply = calls[1].reply] = calls[1]
            /\ Unusable(last) =>
                  /\ ret.status = 502
                  /\ "movies" \notin DOMAIN ret.body
            /\ ret.status = 200 =>
                  /\ ~Unusable(last)
                  /\ ret.body.profiles = last.profiles
                  /\ \A i \in DOMAIN ret.body.movies :
                        ret.body.movies[i].title \in ReplyTitles(last)

\* both queries failed and the request was answered 502
C29_Witness ==
    /\ SuperAnswered
    /\ Len(oracle_calls) = 2
    /\ Unusable(oracle_calls[2].reply)
    /\ ret.status = 502

\* the retry succeeded and its movies were returned
C29_RetrySucceededReached ==
    /\ SuperAnswered
    /\ Len(oracle_calls) = 2
    /\ ret.status = 200
    /\ ret.body.movies # <<>>

\* the first reply was used without a retry
C29_FirstUsedReached ==
    /\ SuperAnswered
    /\ Len(oracle_calls) = 1
    /\ ret.status = 200
    /\ ret.body.movies # <<>>

-----------------------------------------------------------------------------
(* Claims about uploads and batches on the threaded server, checked under  *)
(* ThreadedSpec                                                            *)

\* the batch thread has built its response
BatchDone == locals.batch.pc = "responded"

\* C30: a /api/batch request interleaved with an /upload request works on
\* the complete state of the previous successful upload or on the complete
\* state of the new one: the lines, the watched list and the rating map it
\* reads belong to one upload, and it does not answer "No CSV uploaded yet."
\* once an upload has succeeded.
C30_SnapshotConsistency ==
    BatchDone =>
        IF ret.batch[1].status = 400
        THEN ~locals.batch.had_upload
        ELSE [lines |-> locals.batch.lines, movies |-> locals.batch.movies,
              ratings |-> locals.batch.ratings] \in locals.batch.allowed

\* a batch answered "No CSV uploaded yet." after an upload had succeeded
C30_NoCsvAfterUploadReached ==
    /\ BatchDone
    /\ ret.batch[1].status = 400
    /\ locals.batch.had_upload

\* a batch that read the watched list of one upload and the rating map of
\* another
C30_MixedSnapshotReached ==
    /\ BatchDone
    /\ ret.batch[1].status = 200
    /\ \E a, b \in locals.batch.allowed :
          /\ a # b
          /\ locals.batch.movies = a.movies
          /\ locals.batch.ratings = b.ratings
          /\ a.ratings # b.ratings

\* a batch that worked on the complete state of the upload running beside it
C30_NewStateReached ==
    /\ BatchDone
    /\ ret.batch[1].status = 200
    /\ locals.committed # None
    /\ [lines |-> locals.batch.lines, movies |-> locals.batch.movies,
         ratings |-> locals.batch.ratings] \in locals.batch.allowed \ {locals.committed[1]}

====
